---- MODULE Spec2Model ----
(***************************************************************************)
(* Model of the mitsumori text-to-record extraction engine:                *)
(*   src/app/domain/invoice.py, src/app/services/ocr_service.py,           *)
(*   src/estimate_proto/domain/invoice.py, src/app/ui/main_page.py.        *)
(*                                                                         *)
(* A text is a sequence of characters.  A character is written as a short  *)
(* ASCII name:                                                             *)
(*   "0".."9" ","  digits and the thousands separator                      *)
(*   "sp" "nl"     space and newline (the \s class)                        *)
(*   "k" "K" "W" "w" "h" "H"   the letters of the unit, both cases         *)
(*   "gatsu"       the month marker (U+6708)                               *)
(*   "go" "shi" "you" "sei" "kyuu" "bun"  the characters of the suffixes   *)
(*                 go-shi-you-bun (usage), go-sei-kyuu-bun (billing),      *)
(*                 bun (portion)                                           *)
(*   "chi"         the last character of a record key (U+5024)             *)
(*   "x"           any other character                                     *)
(***************************************************************************)
EXTENDS Integers, Sequences, FiniteSets, TLC

VARIABLES
  input,          \* the argument of the function under test
  called,         \* the function that was applied to input, "none" before the call
  ret,            \* what the call returned
  session_state,  \* st.session_state: pdf_files, output_file, corp_name,
                  \* parse_mode, start_month
  run,            \* _run_ocr_and_fill_excel: its position pc, the loop index
                  \* idx and the local list invoices
  template        \* template_output.xlsx: exists, the header cell b1 and the
                  \* month cells B21..M21 as cells[1..12]

vars == <<input, called, ret, session_state, run, template>>

app == <<session_state, run, template>>

\* The application before any upload (the state the function-level
\* specifications leave untouched).
AppIdle ==
  /\ session_state = [pdf_files |-> <<>>, output_file |-> <<>>, corp_name |-> <<>>,
                      parse_mode |-> "single", start_month |-> 10]
  /\ run = [pc |-> "idle", idx |-> 0, invoices |-> <<>>]
  /\ template = [exists |-> TRUE, b1 |-> <<>>, cells |-> [m \in 1..12 |-> <<>>]]

(***************************************************************************)
(* Character classes of the regular expressions.                           *)
(***************************************************************************)
Digits == {"0", "1", "2", "3", "4", "5", "6", "7", "8", "9"}

NumChars == Digits \cup {","}

Spaces == {"sp", "nl"}

\* Python's None, and Optional[int] values.
None == [none |-> TRUE]

\* re.IGNORECASE folding of the letters of the unit literal.
Lower(c) ==
  CASE c = "K" -> "k"
    [] c = "W" -> "w"
    [] c = "H" -> "h"
    [] OTHER -> c

\* Length of the longest run of characters of class cls starting at index s.
RECURSIVE RunLen(_, _, _)
RunLen(t, s, cls) ==
  IF s <= Len(t) /\ t[s] \in cls THEN 1 + RunLen(t, s + 1, cls) ELSE 0

\* The literal "kWh" under re.IGNORECASE at index p.
KwhLitAt(t, p) ==
  /\ p >= 1
  /\ p + 2 <= Len(t)
  /\ Lower(t[p]) = "k"
  /\ Lower(t[p + 1]) = "w"
  /\ Lower(t[p + 2]) = "h"

Max(S) == CHOOSE v \in S : \A w \in S : w <= v

Min(S) == CHOOSE v \in S : \A w \in S : v <= w

(***************************************************************************)
(* re match of  ([\d,]+)\s*kWh  anchored at index s: the greedy quantifiers*)
(* try the longest run first and back off; the first success is the match. *)
(* A match is [start, gend, end): group 1 is t[start..gend-1].             *)
(***************************************************************************)
KwhMatchAt(t, s) ==
  LET maxr == RunLen(t, s, NumChars)
      ok(r) == {w \in 0..RunLen(t, s + r, Spaces) : KwhLitAt(t, s + r + w)}
      rs == {r \in 1..maxr : ok(r) # {}}
  IN IF rs = {} THEN None
     ELSE LET r == Max(rs)
              w == Max(ok(r))
          IN [start |-> s, gend |-> s + r, end |-> s + r + w + 3]

\* re.findall: leftmost non-overlapping matches, group 1 of each.  starts
\* holds the indices not yet passed at which the pattern matches; the scan
\* resumes at the end of a match.
RECURSIVE KwhScan(_, _)
KwhScan(t, starts) ==
  IF starts = {} THEN <<>>
  ELSE LET m == KwhMatchAt(t, Min(starts))
       IN <<SubSeq(t, m.start, m.gend - 1)>>
            \o KwhScan(t, {s \in starts : s >= m.end})

KwhFindAll(t, pos) ==
  KwhScan(t, {s \in pos..Len(t) : KwhMatchAt(t, s) # None})

\* str.replace(",", "")
StripCommas(raw) == SelectSeq(raw, LAMBDA c : c # ",")

DigitVal(c) ==
  CASE c = "0" -> 0 [] c = "1" -> 1 [] c = "2" -> 2 [] c = "3" -> 3
    [] c = "4" -> 4 [] c = "5" -> 5 [] c = "6" -> 6 [] c = "7" -> 7
    [] c = "8" -> 8 [] c = "9" -> 9

DigitChar(d) ==
  CASE d = 0 -> "0" [] d = 1 -> "1" [] d = 2 -> "2" [] d = 3 -> "3"
    [] d = 4 -> "4" [] d = 5 -> "5" [] d = 6 -> "6" [] d = 7 -> "7"
    [] d = 8 -> "8" [] d = 9 -> "9"

RECURSIVE DigitsValue(_)
DigitsValue(s) ==
  IF s = <<>> THEN 0
  ELSE 10 * DigitsValue(SubSeq(s, 1, Len(s) - 1)) + DigitVal(s[Len(s)])

\* int(num_str) guarded by ValueError: the empty string does not parse.
\* The result is None or [int |-> n].
_safe_int(num_str) ==
  IF num_str = <<>> \/ \E i \in 1..Len(num_str) : num_str[i] \notin Digits
  THEN None
  ELSE [int |-> DigitsValue(num_str)]

\* str(n), also f"{n}".
RECURSIVE str(_)
str(n) ==
  IF n < 0 THEN <<"-">> \o str(0 - n)
  ELSE IF n < 10 THEN <<DigitChar(n)>>
  ELSE str(n \div 10) \o <<DigitChar(n % 10)>>

\* Variant of KeepValues that does not drop zero readings.
RECURSIVE KeepValues_KeepZero(_)
KeepValues_KeepZero(matches) ==
  IF matches = <<>> THEN <<>>
  ELSE LET v == _safe_int(StripCommas(Head(matches)))
       IN IF v = None THEN KeepValues_KeepZero(Tail(matches))
          ELSE <<v.int>> \o KeepValues_KeepZero(Tail(matches))

\* The loop that keeps the parsed, non-zero values of the matches.
RECURSIVE KeepValues(_)
KeepValues(matches) ==
  IF matches = <<>> THEN <<>>
  ELSE LET v == _safe_int(StripCommas(Head(matches)))
       IN IF v = None \/ v.int = 0 THEN KeepValues(Tail(matches))
          ELSE <<v.int>> \o KeepValues(Tail(matches))

\* Variant of SeqMax that takes the first kept value instead of the largest.
SeqMax_First(vs) == vs[1]

SeqMax(vs) == Max({vs[i] : i \in 1..Len(vs)})

extract_kwh_single(t) ==
  LET values == KeepValues(KwhFindAll(t, 1))
  IN IF values = <<>> THEN <<>> ELSE str(SeqMax(values))

\* Returns None or [int |-> v].
extract_kwh_from_segment(segment) ==
  LET values == KeepValues(KwhFindAll(segment, 1))
  IN IF values = <<>> THEN None ELSE [int |-> SeqMax(values)]

\* Variant of KeepPositive that keeps v >= 0.
RECURSIVE KeepPositive_NonNegative(_)
KeepPositive_NonNegative(matches) ==
  IF matches = <<>> THEN <<>>
  ELSE LET raw == StripCommas(Head(matches))
           v == _safe_int(raw)
       IN IF v = None THEN KeepPositive_NonNegative(Tail(matches))
          ELSE <<v.int>> \o KeepPositive_NonNegative(Tail(matches))

\* OcrService._extract_kwh_from_text: int() in a bare try, keeps v > 0.
RECURSIVE KeepPositive(_)
KeepPositive(matches) ==
  IF matches = <<>> THEN <<>>
  ELSE LET raw == StripCommas(Head(matches))
           v == _safe_int(raw)
       IN IF v = None THEN KeepPositive(Tail(matches))
          ELSE IF v.int > 0 THEN <<v.int>> \o KeepPositive(Tail(matches))
          ELSE KeepPositive(Tail(matches))

_extract_kwh_from_text(t) ==
  LET nums == KeepPositive(KwhFindAll(t, 1))
  IN IF nums = <<>> THEN <<>> ELSE str(SeqMax(nums))

\* int(s): [raised |-> "ValueError"] or [int |-> n].
int(s) ==
  IF s = <<>> \/ \E i \in 1..Len(s) : s[i] \notin Digits
  THEN [raised |-> "ValueError"]
  ELSE [int |-> DigitsValue(s)]

\* The loop of estimate_proto extract_kwh_value: int() in try/except
\* ValueError, then the test v == 0.
RECURSIVE ProtoKeepValues(_)
ProtoKeepValues(matches) ==
  IF matches = <<>> THEN <<>>
  ELSE LET num_str == StripCommas(Head(matches))
           v == int(num_str)
       IN IF "raised" \in DOMAIN v THEN ProtoKeepValues(Tail(matches))
          ELSE IF v.int = 0 THEN ProtoKeepValues(Tail(matches))
          ELSE <<v.int>> \o ProtoKeepValues(Tail(matches))

\* estimate_proto extract_kwh_value.
extract_kwh_value(t) ==
  LET values == ProtoKeepValues(KwhFindAll(t, 1))
  IN IF values = <<>> THEN <<>> ELSE str(SeqMax(values))

(***************************************************************************)
(* Month markers.                                                          *)
(***************************************************************************)
\* re match of  (\d{1,2})<gatsu>  anchored at index s (1-based): two digits
\* are tried before one.  Offsets of the match are Python's (0-based start,
\* exclusive end); group 1 is t[start..gend-1] in those offsets.
MonthMatchAt(t, s) ==
  LET ds == {d \in {1, 2} :
               /\ s + d <= Len(t)
               /\ \A i \in 0..(d - 1) : t[s + i] \in Digits
               /\ t[s + d] = "gatsu"}
  IN IF ds = {} THEN None
     ELSE [start |-> s - 1, gend |-> s - 1 + Max(ds), end |-> s + Max(ds)]

\* Group 1 of a match.
Group1(t, m) == SubSeq(t, m.start + 1, m.gend)

\* re.search from index pos (1-based): the leftmost match or None.
MonthSearch(t, pos) ==
  LET starts == {s \in pos..Len(t) : MonthMatchAt(t, s) # None}
  IN IF starts = {} THEN None ELSE MonthMatchAt(t, Min(starts))

\* re.finditer: the leftmost non-overlapping matches in document order.
RECURSIVE MonthFindIter(_, _)
MonthFindIter(t, pos) ==
  LET m == MonthSearch(t, pos)
  IN IF m = None THEN <<>> ELSE <<m>> \o MonthFindIter(t, m.end + 1)

\* Variant of patterns that lists the portion pattern first.
patterns_PortionFirst ==
  << [gap |-> 0, lit |-> <<"bun">>],
     [gap |-> 5, lit |-> <<"go", "shi", "you", "bun">>],
     [gap |-> 5, lit |-> <<"go", "sei", "kyuu", "bun">>] >>

\* The three suffix patterns of the single-period locator, in list order:
\*   (\d{1,2})<gatsu>[^\n]{0,5}<go shi you bun>
\*   (\d{1,2})<gatsu>[^\n]{0,5}<go sei kyuu bun>
\*   (\d{1,2})<gatsu><bun>
patterns ==
  << [gap |-> 5, lit |-> <<"go", "shi", "you", "bun">>],
     [gap |-> 5, lit |-> <<"go", "sei", "kyuu", "bun">>],
     [gap |-> 0, lit |-> <<"bun">>] >>

\* The literal lit at index p.
LitAt(t, p, lit) ==
  /\ p >= 1
  /\ p + Len(lit) - 1 <= Len(t)
  /\ \A i \in 1..Len(lit) : t[p + i - 1] = lit[i]

\* Longest run of non-newline characters from index s, at most max long.
RECURSIVE GapLen(_, _, _)
GapLen(t, s, max) ==
  IF max > 0 /\ s <= Len(t) /\ t[s] # "nl" THEN 1 + GapLen(t, s + 1, max - 1)
  ELSE 0

\* re match of a suffix pattern anchored at index s.
PatMatchAt(t, s, pat) ==
  LET ds == {d \in {1, 2} :
               /\ s + d <= Len(t)
               /\ \A i \in 0..(d - 1) : t[s + i] \in Digits
               /\ t[s + d] = "gatsu"
               /\ \E g \in 0..GapLen(t, s + d + 1, pat.gap) :
                     LitAt(t, s + d + 1 + g, pat.lit)}
  IN IF ds = {} THEN None
     ELSE [start |-> s - 1, gend |-> s - 1 + Max(ds)]

\* re.search with a suffix pattern: the leftmost match or None.
PatSearch(t, pos, pat) ==
  LET starts == {s \in pos..Len(t) : PatMatchAt(t, s, pat) # None}
  IN IF starts = {} THEN None ELSE PatMatchAt(t, Min(starts), pat)

\* "if month and 1 <= month <= 12"
\* Variant of the month test without the range 1..12.
MonthOk_NoRange(month) == month # None

MonthOk(month) == month # None /\ month.int # 0 /\ 1 <= month.int /\ month.int <= 12

\* The for loop over patterns from index k on: the value returned inside the
\* loop, or None when the loop ends without returning.
RECURSIVE PatternLoop(_, _)
PatternLoop(t, k) ==
  IF k > Len(patterns) THEN None
  ELSE LET m == PatSearch(t, 1, patterns[k])
       IN IF m # None /\ MonthOk(_safe_int(Group1(t, m)))
          THEN _safe_int(Group1(t, m))
          ELSE PatternLoop(t, k + 1)

\* Variant of the fallback that goes on to later bare markers until one is
\* in range.
BareFallback_AnyInRange(t) ==
  LET ms == MonthFindIter(t, 1)
      good == {i \in 1..Len(ms) : MonthOk(_safe_int(Group1(t, ms[i])))}
  IN IF good = {} THEN None ELSE _safe_int(Group1(t, ms[Min(good)]))

\* The bare-marker fallback after the loop.
BareFallback(t) ==
  LET m == MonthSearch(t, 1)
  IN IF m = None THEN None
     ELSE IF MonthOk(_safe_int(Group1(t, m))) THEN _safe_int(Group1(t, m))
     ELSE None

\* Returns None or [int |-> month].
extract_month_for_single(t) ==
  LET r == PatternLoop(t, 1)
  IN IF r # None THEN r ELSE BareFallback(t)

\* The for loop of estimate_proto extract_month from index k on: int() in
\* try/except ValueError and the range test.
RECURSIVE ProtoPatternLoop(_, _)
ProtoPatternLoop(t, k) ==
  IF k > Len(patterns) THEN None
  ELSE LET m == PatSearch(t, 1, patterns[k])
           month == int(Group1(t, m))
       IN IF m # None /\ "raised" \notin DOMAIN month
                      /\ 1 <= month.int /\ month.int <= 12
          THEN [int |-> month.int]
          ELSE ProtoPatternLoop(t, k + 1)

\* The bare-marker step of estimate_proto extract_month.
ProtoBareFallback(t) ==
  LET m == MonthSearch(t, 1)
      month == int(Group1(t, m))
  IN IF m = None THEN None
     ELSE IF "raised" \in DOMAIN month THEN None
     ELSE IF 1 <= month.int /\ month.int <= 12 THEN [int |-> month.int]
     ELSE None

\* estimate_proto extract_month.
extract_month(t) ==
  LET r == ProtoPatternLoop(t, 1)
  IN IF r # None THEN r ELSE ProtoBareFallback(t)

\* The enumerate loop of extract_month_segments from list index idx on.
\* A segment is <<month, start, end>> in Python offsets.
RECURSIVE SegmentLoop(_, _, _)
SegmentLoop(t, matches, idx) ==
  IF idx > Len(matches) THEN <<>>
  ELSE LET m == matches[idx]
           month == _safe_int(Group1(t, m))
       IN IF month = None \/ ~(1 <= month.int /\ month.int <= 12)
          THEN SegmentLoop(t, matches, idx + 1)
          ELSE LET start == m.start
                   end == IF idx + 1 <= Len(matches)
                          THEN matches[idx + 1].start
                          ELSE Len(t)
               IN <<<<month.int, start, end>>>> \o SegmentLoop(t, matches, idx + 1)

extract_month_segments(t) == SegmentLoop(t, MonthFindIter(t, 1), 1)

(***************************************************************************)
(* Record builders.  A record (Invoice.fields) is a function from keys to  *)
(* value strings; the empty dict is the function with the empty domain.    *)
(***************************************************************************)
\* Variant of MappedMonth without the wrap of January to December.
MappedMonth_NoWrap(month) == month - 1

\* "12 if month == 1 else month - 1"
MappedMonth(month) == IF month = 1 THEN 12 ELSE month - 1

\* f"{mapped_month}<gatsu><chi>"
FieldKey(mapped_month) == str(mapped_month) \o <<"gatsu", "chi">>

EmptyFields == <<>>

\* fields[key] = value
SetField(fields, key, value) ==
  [k \in DOMAIN fields \cup {key} |-> IF k = key THEN value ELSE fields[k]]

\* text[start:end]
Slice(t, start, end) == SubSeq(t, start + 1, end)

\* Variant of _from_text_single that writes the entry without testing the
\* scanned value.
_from_text_single_NoValueCheck(t) ==
  LET month == extract_month_for_single(t)
      kwh_value == extract_kwh_single(t)
  IN IF month # None
     THEN SetField(EmptyFields, FieldKey(MappedMonth(month.int)), kwh_value)
     ELSE EmptyFields

_from_text_single(t) ==
  LET month == extract_month_for_single(t)
      kwh_value == extract_kwh_single(t)
  IN IF month # None /\ kwh_value # <<>>
     THEN SetField(EmptyFields, FieldKey(MappedMonth(month.int)), kwh_value)
     ELSE EmptyFields

\* estimate_proto Invoice.from_text
proto_from_text(t) ==
  LET month == extract_month(t)
      kwh_value == extract_kwh_value(t)
  IN IF month # None /\ kwh_value # <<>>
     THEN SetField(EmptyFields, FieldKey(MappedMonth(month.int)), kwh_value)
     ELSE EmptyFields

\* Variant of MultiLoop that keeps the first value written under a key.
RECURSIVE MultiLoop_FirstWins(_, _, _, _)
MultiLoop_FirstWins(t, segments, i, fields) ==
  IF i > Len(segments) THEN fields
  ELSE LET seg == segments[i]
           v == extract_kwh_from_segment(Slice(t, seg[2], seg[3]))
       IN IF v = None \/ FieldKey(MappedMonth(seg[1])) \in DOMAIN fields
          THEN MultiLoop_FirstWins(t, segments, i + 1, fields)
          ELSE MultiLoop_FirstWins(t, segments, i + 1,
                 SetField(fields, FieldKey(MappedMonth(seg[1])), str(v.int)))

\* The for loop of _from_text_multi over segments from index i on.
RECURSIVE MultiLoop(_, _, _, _)
MultiLoop(t, segments, i, fields) ==
  IF i > Len(segments) THEN fields
  ELSE LET seg == segments[i]
           v == extract_kwh_from_segment(Slice(t, seg[2], seg[3]))
       IN IF v = None THEN MultiLoop(t, segments, i + 1, fields)
          ELSE MultiLoop(t, segments, i + 1,
                         SetField(fields, FieldKey(MappedMonth(seg[1])), str(v.int)))

_from_text_multi(t) ==
  LET segments == extract_month_segments(t)
  IN IF segments = <<>> THEN EmptyFields
     ELSE MultiLoop(t, segments, 1, EmptyFields)

(***************************************************************************)
(* Inputs.  Texts are concatenations of at most MaxChunks chunks.          *)
(***************************************************************************)
MaxChunks == 4

RECURSIVE Flatten(_)
Flatten(cs) == IF cs = <<>> THEN <<>> ELSE Head(cs) \o Flatten(Tail(cs))

TextsOver(chunks, n) ==
  {Flatten(cs) : cs \in UNION {[1..k -> chunks] : k \in 0..n}}

KWH == <<"k", "W", "h">>

ScanChunks ==
  { <<"0">>, <<"1">>, <<"2">>, <<",">>, <<"sp">>, <<"nl">>, <<"x">>,
    KWH, <<"K", "w", "H">>, <<"k", "W">> }

\* "2024<nen>2<gatsu><bun>... 12,345kWh" and "12kWh 9kWh": examples with
\* several digits.
ScanExamples ==
  { <<"1", "2", ",", "3", "4", "5">> \o KWH,
    <<"1", "2">> \o KWH \o <<"sp", "9">> \o KWH,
    <<"9">> \o KWH \o <<"sp", "1", "2">> \o KWH,
    <<"0", "0", "7">> \o KWH,
    <<"1", ",", "0", "0", "0", "sp", "sp">> \o KWH \o <<"x", "9", "9", "9">> \o KWH }

\* The texts of at most n chunks, and the examples.
ScanTexts(n) == TextsOver(ScanChunks, n) \cup ScanExamples

TextInput(t) == [kind |-> "text", text |-> t]

(***************************************************************************)
(* The scanner functions applied to a text.                                *)
(***************************************************************************)
InitScan ==
  /\ input \in {TextInput(t) : t \in ScanTexts(MaxChunks)}
  /\ called = "none"
  /\ ret = <<>>
  /\ AppIdle

Call_extract_kwh_single ==
  /\ called = "none"
  /\ input.kind = "text"
  /\ called' = "extract_kwh_single"
  /\ ret' = extract_kwh_single(input.text)
  /\ UNCHANGED <<input, app>>

Call_extract_kwh_from_segment ==
  /\ called = "none"
  /\ input.kind = "text"
  /\ called' = "extract_kwh_from_segment"
  /\ ret' = extract_kwh_from_segment(input.text)
  /\ UNCHANGED <<input, app>>

Call_extract_kwh_from_text ==
  /\ called = "none"
  /\ input.kind = "text"
  /\ called' = "_extract_kwh_from_text"
  /\ ret' = _extract_kwh_from_text(input.text)
  /\ UNCHANGED <<input, app>>

Call_extract_kwh_value ==
  /\ called = "none"
  /\ input.kind = "text"
  /\ called' = "extract_kwh_value"
  /\ ret' = extract_kwh_value(input.text)
  /\ UNCHANGED <<input, app>>

NextScan ==
  \/ Call_extract_kwh_single
  \/ Call_extract_kwh_from_segment
  \/ Call_extract_kwh_from_text
  \/ Call_extract_kwh_value

SpecScan == InitScan /\ [][NextScan]_vars

(***************************************************************************)
(* Claims about the Numeric Token Scanner.                                 *)
(***************************************************************************)
Scanners ==
  {"extract_kwh_single", "extract_kwh_from_segment", "_extract_kwh_from_text",
   "extract_kwh_value"}

\* A kWh-tagged number of t, stated without the matching procedure: a maximal
\* run t[a..b] of digits and separators that is followed by any amount of
\* whitespace and then the unit in any letter case.
UnitAt(t, e) ==
  /\ e + 2 <= Len(t)
  /\ t[e] \in {"k", "K"}
  /\ t[e + 1] \in {"w", "W"}
  /\ t[e + 2] \in {"h", "H"}

TaggedRuns(t) ==
  {ab \in (1..Len(t)) \X (1..Len(t)) :
     /\ ab[1] <= ab[2]
     /\ \A i \in ab[1]..ab[2] : t[i] \in NumChars
     /\ (ab[1] = 1 \/ t[ab[1] - 1] \notin NumChars)
     /\ (ab[2] = Len(t) \/ t[ab[2] + 1] \notin NumChars)
     /\ \E e \in (ab[2] + 1)..Len(t) :
          /\ \A i \in (ab[2] + 1)..(e - 1) : t[i] \in Spaces
          /\ UnitAt(t, e)}

\* The digits of a run, separators dropped.
RunDigits(t, ab) == SelectSeq(SubSeq(t, ab[1], ab[2]), LAMBDA c : c \in Digits)

\* A tagged run is valid when it has a digit and its value is not zero.
ValidRun(t, ab) ==
  /\ RunDigits(t, ab) # <<>>
  /\ \E i \in 1..Len(RunDigits(t, ab)) : RunDigits(t, ab)[i] # "0"

\* Positional value of a digit string.
PlaceValue(ds) ==
  LET n == Len(ds)
      pow[k \in 0..n] == IF k = 0 THEN 1 ELSE 10 * pow[k - 1]
      sum[k \in 0..n] == IF k = 0 THEN 0
                         ELSE sum[k - 1] + DigitVal(ds[k]) * pow[n - k]
  IN sum[n]

TaggedValues(t) ==
  {PlaceValue(RunDigits(t, ab)) : ab \in {r \in TaggedRuns(t) : ValidRun(t, r)}}

\* A canonical decimal string: digits only, no leading zero.
Canonical(v) ==
  /\ v # <<>>
  /\ \A i \in 1..Len(v) : v[i] \in Digits
  /\ v[1] # "0"

RetIsEmpty == IF called = "extract_kwh_from_segment" THEN ret = None ELSE ret = <<>>

RetNumber == IF called = "extract_kwh_from_segment" THEN ret.int ELSE PlaceValue(ret)

\* C1: whenever a span holds at least one well-formed non-zero kWh-tagged
\* number, each of the four scanners returns the maximum of those numbers
\* (as a canonical decimal string, or as the integer for the segment variant),
\* whatever the order of the numbers in the text.
C1_ScannerReturnsMax ==
  (called \in Scanners /\ TaggedValues(input.text) # {}) =>
     /\ ~RetIsEmpty
     /\ called # "extract_kwh_from_segment" => Canonical(ret)
     /\ RetNumber = Max(TaggedValues(input.text))

\* C1 witness: two distinct valid tagged numbers, the larger one first in the
\* text, and the scanner returned the larger one.
C1_Witness ==
  /\ called = "extract_kwh_single"
  /\ \E r1 \in TaggedRuns(input.text), r2 \in TaggedRuns(input.text) :
       /\ ValidRun(input.text, r1) /\ ValidRun(input.text, r2)
       /\ r1[1] < r2[1]
       /\ PlaceValue(RunDigits(input.text, r1)) > PlaceValue(RunDigits(input.text, r2))
       /\ ret = str(PlaceValue(RunDigits(input.text, r1)))

\* C2: a scanner returns empty whenever the span has no kWh-tagged number or
\* every tagged number is zero or has no digit; and a zero or digitless
\* tagged number next to valid ones leaves the result at the maximum of the
\* valid ones.
C2_ScannerEmptyAndSkips ==
  called \in Scanners =>
     /\ TaggedValues(input.text) = {} => RetIsEmpty
     /\ (/\ TaggedValues(input.text) # {}
         /\ \E r \in TaggedRuns(input.text) : ~ValidRun(input.text, r))
          => (~RetIsEmpty /\ RetNumber = Max(TaggedValues(input.text)))

\* C2 witness: a span whose tagged numbers are one made of separators only and
\* one that is zero, and the scanner returned empty.
C2_Witness ==
  /\ called \in Scanners
  /\ \E r \in TaggedRuns(input.text) : RunDigits(input.text, r) = <<>>
  /\ \E r \in TaggedRuns(input.text) : RunDigits(input.text, r) = <<"0">>
  /\ RetIsEmpty

\* C2 second witness state: an invalid tagged number follows a valid one.
C2_SkipReached ==
  /\ called = "_extract_kwh_from_text"
  /\ TaggedValues(input.text) # {}
  /\ \E r \in TaggedRuns(input.text) : ~ValidRun(input.text, r)
  /\ ~RetIsEmpty

(***************************************************************************)
(* The single-period locator applied to a text.                            *)
(***************************************************************************)
MaxLocChunks == 4

GATSU == <<"gatsu">>

USAGE == <<"go", "shi", "you", "bun">>

BILLING == <<"go", "sei", "kyuu", "bun">>

LocChunks ==
  { <<"1">>, <<"2">> \o GATSU, <<"3">> \o GATSU, <<"1", "3">> \o GATSU,
    USAGE, BILLING, <<"bun">>, <<"nl">>, <<"x">> }

RECURSIVE Filler(_)
Filler(n) == IF n = 0 THEN <<>> ELSE <<"x">> \o Filler(n - 1)

\* Markers 0..13 alone and under each suffix, and the lookahead window of the
\* first two patterns from 0 to 7 characters.
LocExamples ==
  {str(m) \o GATSU \o suf :
      m \in 0..13, suf \in {<<>>, USAGE, BILLING, <<"bun">>}}
  \cup {<<"2">> \o GATSU \o Filler(g) \o suf \o <<"x", "3">> \o GATSU \o <<"bun">> :
      g \in 0..7, suf \in {USAGE, BILLING}}
  \cup {<<"3">> \o GATSU \o <<"bun", "nl", "2">> \o GATSU \o USAGE,
        <<"3">> \o GATSU \o <<"nl", "1", "3">> \o GATSU \o <<"bun", "2">>
           \o GATSU \o BILLING,
        <<"0">> \o GATSU \o USAGE \o <<"4">> \o GATSU,
        <<"0">> \o GATSU \o <<"x", "4">> \o GATSU \o BILLING,
        <<"0", "5">> \o GATSU \o <<"bun">>}

LocTexts(n) == TextsOver(LocChunks, n) \cup LocExamples

InitLocate ==
  /\ input \in {TextInput(t) : t \in LocTexts(MaxLocChunks)}
  /\ called = "none"
  /\ ret = <<>>
  /\ AppIdle

Call_extract_month_for_single ==
  /\ called = "none"
  /\ input.kind = "text"
  /\ called' = "extract_month_for_single"
  /\ ret' = extract_month_for_single(input.text)
  /\ UNCHANGED <<input, app>>

Call_extract_month ==
  /\ called = "none"
  /\ input.kind = "text"
  /\ called' = "extract_month"
  /\ ret' = extract_month(input.text)
  /\ UNCHANGED <<input, app>>

NextLocate ==
  \/ Call_extract_month_for_single
  \/ Call_extract_month

SpecLocate == InitLocate /\ [][NextLocate]_vars

(***************************************************************************)
(* Claims about the single-period locator.                                 *)
(***************************************************************************)
Locators == {"extract_month_for_single", "extract_month"}

\* The suffix phrase and lookahead window of pattern k, stated apart from
\* the matcher: 1 usage-period, 2 billing-period, 3 portion.
SuffixOf(k) == IF k = 1 THEN USAGE ELSE IF k = 2 THEN BILLING ELSE <<"bun">>

WindowOf(k) == IF k = 3 THEN 0 ELSE 5

\* A d-digit month marker at index s: digits t[s..s+d-1], marker at s+d.
MarkerAt(t, s, d) ==
  /\ s >= 1
  /\ s + d <= Len(t)
  /\ \A i \in s..(s + d - 1) : t[i] \in Digits
  /\ t[s + d] = "gatsu"

\* Pattern k occurs at <<s, d>>: a marker, then at most WindowOf(k)
\* non-newline characters, then the suffix phrase.
Occurs(t, k, s, d) ==
  /\ MarkerAt(t, s, d)
  /\ \E g \in 0..WindowOf(k) :
       /\ s + d + g + Len(SuffixOf(k)) <= Len(t)
       /\ \A i \in (s + d + 1)..(s + d + g) : t[i] # "nl"
       /\ SubSeq(t, s + d + g + 1, s + d + g + Len(SuffixOf(k))) = SuffixOf(k)

Occurrences(t, k) ==
  {sd \in (1..Len(t)) \X {1, 2} : Occurs(t, k, sd[1], sd[2])}

BareMarkers(t) ==
  {sd \in (1..Len(t)) \X {1, 2} : MarkerAt(t, sd[1], sd[2])}

\* The leftmost occurrence of a non-empty set, the longer capture first.
Leftmost(occ) ==
  CHOOSE sd \in occ : \A o \in occ : sd[1] < o[1] \/ (sd[1] = o[1] /\ sd[2] >= o[2])

NumberAt(t, sd) == PlaceValue(SubSeq(t, sd[1], sd[1] + sd[2] - 1))

InRange(n) == n \in 1..12

\* The result of the bare-marker fallback, stated on the first bare marker.
BareResult(t) ==
  IF BareMarkers(t) # {} /\ InRange(NumberAt(t, Leftmost(BareMarkers(t))))
  THEN [int |-> NumberAt(t, Leftmost(BareMarkers(t)))]
  ELSE None

MatchingPatterns(t) == {k \in 1..3 : Occurrences(t, k) # {}}

\* Patterns whose leftmost occurrence captures a number in 1..12.
ValidPatterns(t) ==
  {k \in MatchingPatterns(t) : InRange(NumberAt(t, Leftmost(Occurrences(t, k))))}

\* C4 as claimed: the first pattern in priority order that occurs anywhere
\* decides; if its captured number is outside 1..12 the locator returns empty.
C4_FirstMatchingPatternDecides ==
  (called \in Locators /\ MatchingPatterns(input.text) # {}) =>
     LET n == NumberAt(input.text,
                Leftmost(Occurrences(input.text, Min(MatchingPatterns(input.text)))))
     IN ret = IF InRange(n) THEN [int |-> n] ELSE None

\* C4 amended: the patterns are tried in priority order, each by its leftmost
\* occurrence; the first pattern whose leftmost occurrence captures a number
\* in 1..12 decides the result; a pattern whose leftmost occurrence is out of
\* range is passed over, and when no pattern is left the first bare marker
\* decides (in range: its number, otherwise empty).
C4_FirstValidPatternDecides ==
  (called \in Locators /\ MatchingPatterns(input.text) # {}) =>
     IF ValidPatterns(input.text) # {}
     THEN ret = [int |-> NumberAt(input.text,
                   Leftmost(Occurrences(input.text, Min(ValidPatterns(input.text)))))]
     ELSE ret = BareResult(input.text)

\* C4 witness: the usage-period pattern occurs out of range, the portion
\* pattern occurs later in range, and the locator returned the portion month.
C4_Witness ==
  /\ called = "extract_month_for_single"
  /\ 1 \in MatchingPatterns(input.text)
  /\ 1 \notin ValidPatterns(input.text)
  /\ 3 \in ValidPatterns(input.text)
  /\ 2 \notin MatchingPatterns(input.text)
  /\ ret = [int |-> NumberAt(input.text, Leftmost(Occurrences(input.text, 3)))]

\* C4 second witness state: a lower-priority pattern and a bare marker occur
\* before the in-range winning usage-period pattern.
C4_PriorityReached ==
  /\ called = "extract_month"
  /\ {1, 3} \subseteq ValidPatterns(input.text)
  /\ Leftmost(Occurrences(input.text, 3))[1] < Leftmost(Occurrences(input.text, 1))[1]
  /\ NumberAt(input.text, Leftmost(Occurrences(input.text, 3)))
       # NumberAt(input.text, Leftmost(Occurrences(input.text, 1)))
  /\ ret = [int |-> NumberAt(input.text, Leftmost(Occurrences(input.text, 1)))]

(***************************************************************************)
(* Paginated builder (OcrService._analyze_multi).  An analysis result is   *)
(* [content, pages]; a page is a sequence of spans [offset, length].       *)
(***************************************************************************)
\* The page counts _analyze_multi accepts, and the number of month groups.
ValidPageCounts == {12, 24, 36}

MonthsPerDoc == 12

\* Variant of the join that puts nothing between the texts.
RECURSIVE JoinNl_Plain(_)
JoinNl_Plain(texts) ==
  IF texts = <<>> THEN <<>> ELSE texts[1] \o JoinNl_Plain(Tail(texts))

\* "\n".join(texts)
RECURSIVE JoinNl(_)
JoinNl(texts) ==
  IF texts = <<>> THEN <<>>
  ELSE IF Len(texts) = 1 THEN texts[1]
  ELSE texts[1] \o <<"nl">> \o JoinNl(Tail(texts))

\* The loop over result.pages that cuts the page texts out of the content.
PageTexts(result) ==
  [p \in 1..Len(result.pages) |->
     IF result.pages[p] # <<>>
     THEN LET span == result.pages[p][1]
          IN Slice(result.content, span.offset, span.offset + span.length)
     ELSE <<>>]

\* Variant of _next_month without the wrap of December to January.
_next_month_NoWrap(month) == month + 1

_next_month(month) == IF month = 12 THEN 1 ELSE month + 1

\* Variant of the group loop that does not advance the month between groups.
RECURSIVE GroupLoop_SameMonth(_, _, _, _, _)
GroupLoop_SameMonth(page_texts, pages_per_month, i, current_month, fields) ==
  IF i >= MonthsPerDoc THEN fields
  ELSE LET start_idx == i * pages_per_month
           end_idx == start_idx + pages_per_month
           month_text == JoinNl(Slice(page_texts, start_idx, end_idx))
           kwh_value == _extract_kwh_from_text(month_text)
           next_fields ==
             IF kwh_value # <<>>
             THEN SetField(fields, FieldKey(MappedMonth(current_month)), kwh_value)
             ELSE fields
       IN GroupLoop_SameMonth(page_texts, pages_per_month, i + 1,
                              current_month, next_fields)

\* The for loop over i in range(12), from iteration i on.
RECURSIVE GroupLoop(_, _, _, _, _)
GroupLoop(page_texts, pages_per_month, i, current_month, fields) ==
  IF i >= MonthsPerDoc THEN fields
  ELSE LET start_idx == i * pages_per_month
           end_idx == start_idx + pages_per_month
           month_text == JoinNl(Slice(page_texts, start_idx, end_idx))
           kwh_value == _extract_kwh_from_text(month_text)
           next_fields ==
             IF kwh_value # <<>>
             THEN SetField(fields, FieldKey(MappedMonth(current_month)), kwh_value)
             ELSE fields
       IN GroupLoop(page_texts, pages_per_month, i + 1,
                    _next_month(current_month), next_fields)

\* Variant of _analyze_multi without the page-count check.
_analyze_multi_NoPageCheck(result, start_month) ==
  LET page_texts == PageTexts(result)
      num_pages == Len(page_texts)
  IN [fields |-> GroupLoop(page_texts, num_pages \div MonthsPerDoc, 0,
                           start_month, EmptyFields),
      raw_text |-> JoinNl(page_texts)]

\* Returns [raised |-> "ValueError"] or the Invoice [fields, raw_text].
_analyze_multi(result, start_month) ==
  LET page_texts == PageTexts(result)
      num_pages == Len(page_texts)
  IN IF num_pages \notin ValidPageCounts
     THEN [raised |-> "ValueError"]
     ELSE [fields |-> GroupLoop(page_texts, num_pages \div MonthsPerDoc, 0,
                                start_month, EmptyFields),
           raw_text |-> JoinNl(page_texts)]

(***************************************************************************)
(* Inputs of the builders.                                                 *)
(***************************************************************************)
MaxBuildChunks == 4

BuildChunks ==
  { <<"1">> \o GATSU, <<"2">> \o GATSU, <<"1", "3">> \o GATSU,
    <<"5">> \o KWH, <<"7">> \o KWH, <<"0">> \o KWH, <<"bun">>, <<"x">> }

\* "2<gatsu><bun>... 12,345kWh"; every marker 0..13 before a reading; three
\* consecutive markers; out-of-range markers inside and at the end.
BuildExamples ==
  { <<"2">> \o GATSU \o <<"bun", "x", "1", "2", ",", "3", "4", "5">> \o KWH }
  \cup {str(m) \o GATSU \o suf \o <<"x", "9">> \o KWH :
          m \in 0..13, suf \in {<<>>, <<"bun">>}}
  \cup {str(m) \o GATSU \o <<"4">> \o KWH \o str(m + 1) \o GATSU \o <<"6">> \o KWH
          \o str(m + 2) \o GATSU \o <<"8">> \o KWH : m \in 0..11}
  \cup {<<"2">> \o GATSU \o <<"5">> \o KWH \o <<"1", "3">> \o GATSU \o <<"7">> \o KWH
          \o <<"3">> \o GATSU \o tail : tail \in {<<>>, <<"6">> \o KWH}}
  \cup {<<"2">> \o GATSU \o <<"5">> \o KWH \o <<"3">> \o GATSU \o <<"x", "0">> \o GATSU
          \o <<"7">> \o KWH,
        <<"2">> \o GATSU \o <<"7">> \o KWH \o <<"2">> \o GATSU \o <<"5">> \o KWH
          \o <<"2">> \o GATSU \o <<"x">>}

BuildTexts(n) == TextsOver(BuildChunks, n) \cup BuildExamples

\* The analysis result of a document whose pages hold the given texts; a page
\* without text has no span.
RECURSIVE OffsetOf(_, _)
OffsetOf(page_texts, p) ==
  IF p = 1 THEN 0 ELSE OffsetOf(page_texts, p - 1) + Len(page_texts[p - 1])

MakeResult(page_texts) ==
  [content |-> Flatten(page_texts),
   pages |-> [p \in 1..Len(page_texts) |->
                IF page_texts[p] = <<>> THEN <<>>
                ELSE <<[offset |-> OffsetOf(page_texts, p),
                        length |-> Len(page_texts[p])]>>]]

\* Page p (counted from 0) carries the reading p + 1.
PageReading(p) == str(p + 1) \o KWH

\* Page layouts of an n-page document: every page carries its reading; only
\* page q does; every page but q does.
PageLayouts(n) ==
  {[p \in 1..n |-> PageReading(p - 1)]}
  \cup {[p \in 1..n |-> IF p - 1 = q THEN PageReading(q) ELSE <<>>] : q \in 0..(n - 1)}
  \cup {[p \in 1..n |-> IF p - 1 = q THEN <<"x">> ELSE PageReading(p - 1)] : q \in 0..(n - 1)}

\* Layouts of an n-page document (24 or 36 pages) in which a reading of month
\* group 1 runs over a page boundary: the digits are split, the number and
\* its unit are split, the unit is split, a separator is split from the rest.
StraddleLayouts(n) ==
  IF n \notin {24, 36} THEN {}
  ELSE LET a == (n \div 12) + 1
       IN {[p \in 1..n |-> IF p = a THEN pair[1] ELSE IF p = a + 1 THEN pair[2] ELSE <<>>] :
             pair \in { << <<"1", "2">>, <<"3">> \o KWH >>,
                        << <<"1", "2">>, KWH >>,
                        << <<"1", "2", "k">>, <<"W", "h">> >>,
                        << <<"7">> \o KWH \o <<"1", "2", ",">>, <<"3", "4", "5">> \o KWH >> }}

PageCounts == {0, 11, 12, 13, 24, 25, 36, 48}

OcrInputs(counts) ==
  {[kind |-> "ocr", result |-> MakeResult(lay), start_month |-> sm] :
      lay \in UNION {PageLayouts(n) \cup StraddleLayouts(n) : n \in counts},
      sm \in 1..12}

(***************************************************************************)
(* The segment locator and the record builders applied to an input.        *)
(***************************************************************************)
InitBuild ==
  /\ input \in {TextInput(t) : t \in BuildTexts(MaxBuildChunks)} \cup OcrInputs(PageCounts)
  /\ called = "none"
  /\ ret = <<>>
  /\ AppIdle

Call_extract_month_segments ==
  /\ called = "none"
  /\ input.kind = "text"
  /\ called' = "extract_month_segments"
  /\ ret' = extract_month_segments(input.text)
  /\ UNCHANGED <<input, app>>

Call_from_text_single ==
  /\ called = "none"
  /\ input.kind = "text"
  /\ called' = "_from_text_single"
  /\ ret' = _from_text_single(input.text)
  /\ UNCHANGED <<input, app>>

Call_proto_from_text ==
  /\ called = "none"
  /\ input.kind = "text"
  /\ called' = "proto_from_text"
  /\ ret' = proto_from_text(input.text)
  /\ UNCHANGED <<input, app>>

Call_from_text_multi ==
  /\ called = "none"
  /\ input.kind = "text"
  /\ called' = "_from_text_multi"
  /\ ret' = _from_text_multi(input.text)
  /\ UNCHANGED <<input, app>>

Call_analyze_multi ==
  /\ called = "none"
  /\ input.kind = "ocr"
  /\ called' = "_analyze_multi"
  /\ ret' = _analyze_multi(input.result, input.start_month)
  /\ UNCHANGED <<input, app>>

NextBuild ==
  \/ Call_extract_month_segments
  \/ Call_from_text_single
  \/ Call_proto_from_text
  \/ Call_from_text_multi
  \/ Call_analyze_multi

SpecBuild == InitBuild /\ [][NextBuild]_vars

(***************************************************************************)
(* Claims about the record builders.                                       *)
(***************************************************************************)
\* The shift law as stated: m - 1 for m in 2..12, and 12 for m = 1.
ShiftLaw(m) == CASE m \in 2..12 -> m - 1 [] m = 1 -> 12

\* startMonth advanced by i positions with wrap from 12 to 1.
Advance(start, i) == ((start - 1 + i) % 12) + 1

\* A record key reads "<k><gatsu><chi>" with k a canonical number.
WellFormedKey(key) ==
  /\ Len(key) >= 3
  /\ key[Len(key) - 1] = "gatsu"
  /\ key[Len(key)] = "chi"
  /\ Canonical(SubSeq(key, 1, Len(key) - 2))

KeyMonth(key) == PlaceValue(SubSeq(key, 1, Len(key) - 2))

KeyMonths(fields) == {KeyMonth(key) : key \in DOMAIN fields}

\* The key of a record that stands for month k.
KeyFor(fields, k) == CHOOSE key \in DOMAIN fields : KeyMonth(key) = k

\* The result of the single-period locator, stated on occurrences.
LocatedMonth(t) ==
  IF ValidPatterns(t) # {}
  THEN [int |-> NumberAt(t, Leftmost(Occurrences(t, Min(ValidPatterns(t)))))]
  ELSE BareResult(t)

WholeTextBuilders == {"_from_text_single", "proto_from_text"}

\* The text of month group i (from 0) of an analysed document.
GroupText(result, i) ==
  LET n == Len(result.pages)
      per == n \div 12
  IN JoinNl([j \in 1..per |-> PageTexts(result)[i * per + j]])

\* The scanned segments of a text: indices of the located segments whose
\* slice holds a valid tagged number.
ScannedAmong(t, segs) ==
  {i \in 1..Len(segs) : TaggedValues(Slice(t, segs[i][2], segs[i][3])) # {}}

ScannedSegments(t) == ScannedAmong(t, extract_month_segments(t))

\* C3: in the whole-text, the segmented and the paginated builder alike, the
\* key written for a detected calendar month m is m - 1 for m in 2..12 and
\* 12 for m = 1, and the mapping the builders use is a bijection of 1..12.
C3_ShiftLaw ==
  /\ (called \in WholeTextBuilders /\ ret # EmptyFields) =>
        /\ \A key \in DOMAIN ret : WellFormedKey(key)
        /\ KeyMonths(ret) = {ShiftLaw(LocatedMonth(input.text).int)}
  /\ called = "_from_text_multi" =>
        /\ \A key \in DOMAIN ret : WellFormedKey(key)
        /\ LET segs == extract_month_segments(input.text)
           IN KeyMonths(ret) =
                {ShiftLaw(segs[i][1]) : i \in ScannedAmong(input.text, segs)}
  /\ (called = "_analyze_multi" /\ "fields" \in DOMAIN ret) =>
        /\ \A key \in DOMAIN ret.fields : WellFormedKey(key)
        /\ KeyMonths(ret.fields) =
             {ShiftLaw(Advance(input.start_month, i)) :
                 i \in {g \in 0..11 : TaggedValues(GroupText(input.result, g)) # {}}}
  /\ called = "_analyze_multi" =>
        /\ \A m \in 1..12 : MappedMonth(m) = ShiftLaw(m)
        /\ {MappedMonth(m) : m \in 1..12} = 1..12
        /\ \A m1 \in 1..12, m2 \in 1..12 : MappedMonth(m1) = MappedMonth(m2) => m1 = m2

\* C3 witness: a text located in month 1 whose record has the single key 12.
C3_Witness ==
  /\ called = "_from_text_single"
  /\ LocatedMonth(input.text) = [int |-> 1]
  /\ DOMAIN ret = {<<"1", "2", "gatsu", "chi">>}

\* C3 further witness states: the wrap in the segmented and in the paginated
\* builder.
C3_MultiWrapReached ==
  /\ called = "_from_text_multi"
  /\ <<"1", "2", "gatsu", "chi">> \in DOMAIN ret
  /\ <<"1", "gatsu", "chi">> \in DOMAIN ret

C3_PagedWrapReached ==
  /\ called = "_analyze_multi"
  /\ "fields" \in DOMAIN ret
  /\ input.start_month = 11
  /\ DOMAIN ret.fields = {<<"1", "2", "gatsu", "chi">>}

\* C5: the whole-text builders return exactly one entry
\* {shift(month): value} when the locator finds a month and the scanner finds
\* a value over the entire text, and the empty record otherwise; the text
\* "2<gatsu><bun>x12,345kWh" gives {1: "12345"}.
C5_WholeTextRecord ==
  called \in WholeTextBuilders =>
     /\ Cardinality(DOMAIN ret) <= 1
     /\ IF LocatedMonth(input.text) # None /\ TaggedValues(input.text) # {}
        THEN /\ Cardinality(DOMAIN ret) = 1
             /\ \A key \in DOMAIN ret :
                  /\ WellFormedKey(key)
                  /\ KeyMonth(key) = ShiftLaw(LocatedMonth(input.text).int)
                  /\ Canonical(ret[key])
                  /\ PlaceValue(ret[key]) = Max(TaggedValues(input.text))
        ELSE ret = EmptyFields
     /\ input.text = <<"2", "gatsu", "bun", "x", "1", "2", ",", "3", "4", "5", "k", "W", "h">>
          => ret = (<<"1", "gatsu", "chi">> :> <<"1", "2", "3", "4", "5">>)

\* C5 witness: the month-2 example text and its record.
C5_Witness ==
  /\ called = "_from_text_single"
  /\ input.text = <<"2", "gatsu", "bun", "x", "1", "2", ",", "3", "4", "5", "k", "W", "h">>
  /\ ret = (<<"1", "gatsu", "chi">> :> <<"1", "2", "3", "4", "5">>)

\* C5 further witness states: a month without a value, and a value without a
\* month, both give the empty record.
C5_MonthOnlyReached ==
  /\ called = "proto_from_text"
  /\ LocatedMonth(input.text) # None
  /\ TaggedValues(input.text) = {}
  /\ \E r \in TaggedRuns(input.text) : TRUE
  /\ ret = EmptyFields

C5_ValueOnlyReached ==
  /\ called = "_from_text_single"
  /\ LocatedMonth(input.text) = None
  /\ BareMarkers(input.text) # {}
  /\ TaggedValues(input.text) # {}
  /\ ret = EmptyFields

(***************************************************************************)
(* Claims about segmentation and the segmented builder.                    *)
(***************************************************************************)
\* The month-marker occurrences in document order: one per marker character
\* preceded by a digit, with two digits when two precede it.
MarkerOccurrences(t) ==
  {sd \in BareMarkers(t) : sd[2] = 2 \/ ~MarkerAt(t, sd[1] - 1, 2)}

RetainedMarkers(t) == {sd \in MarkerOccurrences(t) : InRange(NumberAt(t, sd))}

\* The i-th element of a set of occurrences by start index.
NthByStart(occ, i) ==
  CHOOSE sd \in occ : Cardinality({o \in occ : o[1] < sd[1]}) = i - 1

\* Segments with boundaries taken among the retained markers only.
RetainedSegments(t) ==
  LET R == RetainedMarkers(t)
      n == Cardinality(R)
  IN [i \in 1..n |->
        <<NumberAt(t, NthByStart(R, i)),
          NthByStart(R, i)[1] - 1,
          IF i < n THEN NthByStart(R, i + 1)[1] - 1 ELSE Len(t)>>]

\* C6 as claimed: the segment of the i-th retained marker runs from its offset
\* to the offset of the next retained marker, or to the text length for the
\* last one; an out-of-range marker in between does not end a segment.
C6_BoundariesAmongRetained ==
  called = "extract_month_segments" => ret = RetainedSegments(input.text)

\* C6, what the code does: a state where an out-of-range marker after a
\* retained one ends that retained marker's segment.
C6_CutShortReached ==
  /\ called = "extract_month_segments"
  /\ \E i \in 1..Len(ret) :
       /\ \E sd \in MarkerOccurrences(input.text) \ RetainedMarkers(input.text) :
            ret[i][3] = sd[1] - 1
       /\ ret[i][3] < RetainedSegments(input.text)[i][3]

\* C7 as claimed: the segment list is ordered by strictly increasing start,
\* segments do not overlap, every month is in 1..12, and the end of the final
\* segment is the text length.
C7_SegmentInvariant ==
  called = "extract_month_segments" =>
     /\ \A i \in 1..Len(ret) :
          /\ ret[i][1] \in 1..12
          /\ ret[i][2] < ret[i][3]
     /\ \A i \in 1..(Len(ret) - 1) :
          /\ ret[i][2] < ret[i + 1][2]
          /\ ret[i][3] <= ret[i + 1][2]
     /\ ret # <<>> => ret[Len(ret)][3] = Len(input.text)

\* The part of C7 that holds of the code: order, disjointness, month range.
C7_OrderedDisjoint ==
  called = "extract_month_segments" =>
     /\ \A i \in 1..Len(ret) :
          /\ ret[i][1] \in 1..12
          /\ ret[i][2] < ret[i][3]
     /\ \A i \in 1..(Len(ret) - 1) :
          /\ ret[i][2] < ret[i + 1][2]
          /\ ret[i][3] <= ret[i + 1][2]

\* The last scanned segment of t that writes month key k, 0 if none.
LastWriter(t, k) ==
  LET segs == extract_month_segments(t)
      W == {i \in ScannedAmong(t, segs) : ShiftLaw(segs[i][1]) = k}
  IN IF W = {} THEN 0 ELSE Max(W)

\* The last writer of every month key of t.
LastWriters(t) == [k \in 1..12 |-> LastWriter(t, k)]

\* C8: the segmented builder scans each segment's own substring; the record
\* holds key k exactly when some segment of shifted month k has a valid
\* tagged number in its substring, and the value under k is the scan of the
\* last such segment; segments without a number change nothing, and a text
\* without segments gives the empty record.
C8_SegmentedRecord ==
  called = "_from_text_multi" =>
     /\ \A key \in DOMAIN ret : WellFormedKey(key) /\ Canonical(ret[key])
     /\ Cardinality(DOMAIN ret) = Cardinality(KeyMonths(ret))
     /\ LET segs == extract_month_segments(input.text)
            last == LastWriters(input.text)
        IN /\ KeyMonths(ret) = {k \in 1..12 : last[k] # 0}
           /\ \A k \in KeyMonths(ret) :
                PlaceValue(ret[KeyFor(ret, k)])
                  = Max(TaggedValues(Slice(input.text, segs[last[k]][2],
                                                       segs[last[k]][3])))
           /\ segs = <<>> => ret = EmptyFields

\* C8 witness: two segments of the same month with readings, the earlier one
\* larger, followed by a segment of that month without a reading; the record
\* holds the later reading.
C8_Witness ==
  /\ called = "_from_text_multi"
  /\ \E i \in ScannedSegments(input.text), j \in ScannedSegments(input.text) :
       /\ i < j
       /\ extract_month_segments(input.text)[i][1] = extract_month_segments(input.text)[j][1]
       /\ j < Len(extract_month_segments(input.text))
       /\ Len(extract_month_segments(input.text)) \notin ScannedSegments(input.text)
       /\ extract_month_segments(input.text)[Len(extract_month_segments(input.text))][1]
            = extract_month_segments(input.text)[j][1]
       /\ LET si == extract_month_segments(input.text)[i]
              sj == extract_month_segments(input.text)[j]
          IN /\ Max(TaggedValues(Slice(input.text, si[2], si[3])))
                  > Max(TaggedValues(Slice(input.text, sj[2], sj[3])))
             /\ ret = (FieldKey(ShiftLaw(sj[1]))
                         :> str(Max(TaggedValues(Slice(input.text, sj[2], sj[3])))))

\* C8 further witness state: a text with tagged numbers but no segment.
C8_NoSegmentReached ==
  /\ called = "_from_text_multi"
  /\ extract_month_segments(input.text) = <<>>
  /\ MarkerOccurrences(input.text) # {}
  /\ TaggedValues(input.text) # {}
  /\ ret = EmptyFields

(***************************************************************************)
(* Services behind the batch run.  The uploaded bytes of a document are     *)
(* opaque; the analysis service decides what they yield.                   *)
(***************************************************************************)
\* A paginated document of n pages where page p (from 0) reads base + p + 1.
PagedResult(n, base) == MakeResult([p \in 1..n |-> str(base + p) \o KWH])

Pages0 == MakeResult(<<>>)

Pages12 == PagedResult(12, 100)

Pages13 == PagedResult(13, 20)

Pages24 == PagedResult(24, 40)

Pages36 == PagedResult(36, 200)

Month2_5kWh == MakeResult(<< <<"2">> \o GATSU \o <<"bun", "5">> \o KWH >>)

Month2_7kWh == MakeResult(<< <<"2">> \o GATSU \o <<"bun", "7">> \o KWH >>)

Month5_9kWh == MakeResult(<< <<"5">> \o GATSU \o <<"bun", "9">> \o KWH >>)

\* client.begin_analyze_document(...).result() for the uploaded bytes:
\* [raised |-> "OcrError"] when the call fails, the analysis result otherwise.
begin_analyze_document(bytes) ==
  CASE bytes = "unreadable" -> [raised |-> "OcrError"]
    [] bytes = "pages0" -> Pages0
    [] bytes = "pages12" -> Pages12
    [] bytes = "pages13" -> Pages13
    [] bytes = "pages24" -> Pages24
    [] bytes = "pages36" -> Pages36
    [] bytes = "month2_5kWh" -> Month2_5kWh
    [] bytes = "month2_7kWh" -> Month2_7kWh
    [] bytes = "month5_9kWh" -> Month5_9kWh

_analyze_single(content) ==
  LET result == begin_analyze_document(content)
  IN IF "raised" \in DOMAIN result THEN result
     ELSE [fields |-> _from_text_single(result.content),
           raw_text |-> result.content]

\* The analysis call of _analyze_multi followed by the paginated builder.
_analyze_multi_call(content, start_month) ==
  LET result == begin_analyze_document(content)
  IN IF "raised" \in DOMAIN result THEN result
     ELSE _analyze_multi(result, start_month)

\* OcrService.analyze_invoice; start_month is None or [int |-> m].
analyze_invoice(content, mode, start_month) ==
  IF mode = "multi"
  THEN IF start_month = None THEN [raised |-> "ValueError"]
       ELSE _analyze_multi_call(content, start_month.int)
  ELSE _analyze_single(content)

\* str.strip()
RECURSIVE LStrip(_)
LStrip(t) == IF t # <<>> /\ Head(t) \in Spaces THEN LStrip(Tail(t)) ELSE t

RECURSIVE RStrip(_)
RStrip(t) ==
  IF t # <<>> /\ t[Len(t)] \in Spaces THEN RStrip(SubSeq(t, 1, Len(t) - 1)) ELSE t

Strip(t) == RStrip(LStrip(t))

\* Variant of the outer loop in which the first invoice holding a key wins.
RECURSIVE WriteAll_FirstWins(_, _, _)
WriteAll_FirstWins(cells, invoices, i) ==
  IF i > Len(invoices) THEN cells
  ELSE LET later == WriteAll_FirstWins(cells, invoices, i + 1)
           fields == invoices[i].fields
       IN [m \in 1..12 |->
             IF FieldKey(m) \in DOMAIN fields THEN fields[FieldKey(m)] ELSE later[m]]

\* Variant of the inner loop that writes the value stored under key m into
\* the cell of the month after m.
RECURSIVE WriteMonths_Inverted(_, _, _)
WriteMonths_Inverted(cells, fields, m) ==
  IF m > 12 THEN cells
  ELSE IF FieldKey(m) \in DOMAIN fields
       THEN WriteMonths_Inverted(
              [cells EXCEPT ![IF m = 12 THEN 1 ELSE m + 1] = fields[FieldKey(m)]],
              fields, m + 1)
       ELSE WriteMonths_Inverted(cells, fields, m + 1)

\* The inner loop "for m in range(1, 13)" of write_invoices from month m on.
RECURSIVE WriteMonths(_, _, _)
WriteMonths(cells, fields, m) ==
  IF m > 12 THEN cells
  ELSE IF FieldKey(m) \in DOMAIN fields
       THEN WriteMonths([cells EXCEPT ![m] = fields[FieldKey(m)]], fields, m + 1)
       ELSE WriteMonths(cells, fields, m + 1)

\* The outer loop "for invoice in invoices" from list index i on.
RECURSIVE WriteAll(_, _, _)
WriteAll(cells, invoices, i) ==
  IF i > Len(invoices) THEN cells
  ELSE WriteAll(WriteMonths(cells, invoices[i].fields, 1), invoices, i + 1)

OutPath == <<"x">>

\* Variant of write_invoices that fills the month cells of a blank sheet
\* instead of those of the loaded template.
write_invoices_FromBlank(tpl, invoices, corp_name) ==
  IF ~tpl.exists THEN [template |-> tpl, path |-> <<>>]
  ELSE [template |->
          [exists |-> TRUE,
           b1 |-> IF Strip(corp_name) # <<>> THEN Strip(corp_name) ELSE tpl.b1,
           cells |-> WriteAll([m \in 1..12 |-> <<>>], invoices, 1)],
        path |-> OutPath]

\* ExcelService.write_invoices: the template after the call and the path.
write_invoices(tpl, invoices, corp_name) ==
  IF ~tpl.exists THEN [template |-> tpl, path |-> <<>>]
  ELSE [template |->
          [exists |-> TRUE,
           b1 |-> IF Strip(corp_name) # <<>> THEN Strip(corp_name) ELSE tpl.b1,
           cells |-> WriteAll(tpl.cells, invoices, 1)],
        path |-> OutPath]

(***************************************************************************)
(* The batch run of the UI (src/app/ui/main_page.py).  Status values:      *)
(*   "mishori" (unprocessed), "shorichu" (processing), "kanryo" (done),    *)
(*   "error".                                                              *)
(***************************************************************************)
MaxDocs == 2

BatchDocs ==
  {"unreadable", "pages0", "pages12", "pages13", "pages24", "pages36",
   "month2_5kWh", "month2_7kWh", "month5_9kWh"}

Uploads(n) == UNION {[1..k -> BatchDocs] : k \in 1..n}

StartMonths == {1, 10, 12}

CorpNames == {<<>>, <<"sp", "x", "sp">>}

\* The session after the upload section of render_main_page has run.
FreshSession(docs, mode, sm, corp) ==
  [pdf_files |-> [i \in 1..Len(docs) |->
                    [bytes |-> docs[i], status |-> "mishori", invoice |-> None,
                     text |-> <<>>]],
   output_file |-> <<>>,
   corp_name |-> corp,
   parse_mode |-> mode,
   start_month |-> sm]

\* The selectbox of the start month is shown in multi mode only; in single
\* mode the session keeps the default.
DefaultStartMonth == 10

InitBatch ==
  /\ input = <<>>
  /\ called = "none"
  /\ ret = <<>>
  /\ \E docs \in Uploads(MaxDocs), corp \in CorpNames :
       \/ session_state = FreshSession(docs, "single", DefaultStartMonth, corp)
       \/ \E sm \in StartMonths :
            session_state = FreshSession(docs, "multi", sm, corp)
  /\ run = [pc |-> "idle", idx |-> 0, invoices |-> <<>>]
  /\ template \in {[exists |-> FALSE, b1 |-> <<>>, cells |-> [m \in 1..12 |-> <<>>]],
                   [exists |-> TRUE, b1 |-> <<>>, cells |-> [m \in 1..12 |-> <<>>]],
                   [exists |-> TRUE, b1 |-> <<"x">>, cells |-> [m \in 1..12 |-> <<"x">>]]}

\* The run button: _run_ocr_and_fill_excel starts.
StartRun ==
  /\ run.pc = "idle"
  /\ Len(session_state.pdf_files) > 0
  /\ session_state' = [session_state EXCEPT !.output_file = <<>>]
  /\ run' = [pc |-> "loop", idx |-> 1, invoices |-> <<>>]
  /\ UNCHANGED <<input, called, ret, template>>

\* Variant of the first statement of an iteration that leaves the status.
MarkProcessing_NoStatus ==
  /\ run.pc = "loop"
  /\ run.idx <= Len(session_state.pdf_files)
  /\ run' = [run EXCEPT !.pc = "analyze"]
  /\ UNCHANGED <<session_state, input, called, ret, template>>

\* The first statement of a loop iteration: status of the document := processing.
MarkProcessing ==
  /\ run.pc = "loop"
  /\ run.idx <= Len(session_state.pdf_files)
  /\ session_state' = [session_state EXCEPT !.pdf_files[run.idx].status = "shorichu"]
  /\ run' = [run EXCEPT !.pc = "analyze"]
  /\ UNCHANGED <<input, called, ret, template>>

\* ocr_service.analyze_invoice(content, mode=parse_mode, start_month=... if
\* parse_mode == "multi" else None), tabulated per document, mode and start
\* month: the call is a function of these three only.
Analyses ==
  [content \in BatchDocs |-> [mode \in {"single", "multi"} |-> [sm \in 1..12 |->
     analyze_invoice(content, mode, IF mode = "multi" THEN [int |-> sm] ELSE None)]]]

\* Variant of the loop iteration in which a raised exception ends the loop.
AnalyzeDocument_AbortOnError ==
  /\ run.pc = "analyze"
  /\ LET file_info == session_state.pdf_files[run.idx]
         invoice == Analyses[file_info.bytes][session_state.parse_mode]
                            [session_state.start_month]
     IN IF "raised" \in DOMAIN invoice
        THEN /\ session_state' =
                  [session_state EXCEPT !.pdf_files[run.idx].status = "error"]
             /\ run' = [run EXCEPT !.pc = "loop",
                                   !.idx = Len(session_state.pdf_files) + 1]
        ELSE /\ session_state' =
                  [session_state EXCEPT
                     !.pdf_files[run.idx].status = "kanryo",
                     !.pdf_files[run.idx].invoice = invoice,
                     !.pdf_files[run.idx].text = invoice.raw_text]
             /\ run' = [run EXCEPT !.pc = "loop", !.idx = @ + 1,
                                   !.invoices = Append(@, invoice)]
  /\ UNCHANGED <<input, called, ret, template>>

\* The try block of a loop iteration and its except branch.
AnalyzeDocument ==
  /\ run.pc = "analyze"
  /\ LET file_info == session_state.pdf_files[run.idx]
         invoice == Analyses[file_info.bytes][session_state.parse_mode]
                            [session_state.start_month]
     IN IF "raised" \in DOMAIN invoice
        THEN /\ session_state' =
                  [session_state EXCEPT !.pdf_files[run.idx].status = "error"]
             /\ run' = [run EXCEPT !.pc = "loop", !.idx = @ + 1]
        ELSE /\ session_state' =
                  [session_state EXCEPT
                     !.pdf_files[run.idx].status = "kanryo",
                     !.pdf_files[run.idx].invoice = invoice,
                     !.pdf_files[run.idx].text = invoice.raw_text]
             /\ run' = [run EXCEPT !.pc = "loop", !.idx = @ + 1,
                                   !.invoices = Append(@, invoice)]
  /\ UNCHANGED <<input, called, ret, template>>

\* After the loop: write_invoices and the output path.
WriteInvoices ==
  /\ run.pc = "loop"
  /\ run.idx > Len(session_state.pdf_files)
  /\ LET w == write_invoices(template, run.invoices, Strip(session_state.corp_name))
     IN /\ template' = w.template
        /\ session_state' = [session_state EXCEPT !.output_file = w.path]
  /\ run' = [run EXCEPT !.pc = "finished"]
  /\ UNCHANGED <<input, called, ret>>

NextBatch ==
  \/ StartRun
  \/ MarkProcessing
  \/ AnalyzeDocument
  \/ WriteInvoices

SpecBatch == InitBatch /\ [][NextBatch]_vars

(***************************************************************************)
(* Claims about the paginated builder.                                     *)
(***************************************************************************)
\* Documents of the batch that were analysed: the loop has passed them.
Processed == {j \in 1..Len(session_state.pdf_files) :
                j < run.idx \/ run.pc = "finished"}

\* The page count the analysis service reports for document j, -1 when the
\* analysis call itself fails.
PageCountOf(j) ==
  LET result == begin_analyze_document(session_state.pdf_files[j].bytes)
  IN IF "raised" \in DOMAIN result THEN -1 ELSE Len(result.pages)

\* The readings printed in the analysed documents whose page count is not
\* 12, 24 or 36.
RejectedReadings ==
  UNION {TaggedValues(begin_analyze_document(session_state.pdf_files[j].bytes).content) :
           j \in {i \in Processed : PageCountOf(i) \notin {-1, 12, 24, 36}}}

RecordReadings(fields) == {PlaceValue(fields[key]) : key \in DOMAIN fields}

\* C9: in multi mode a document whose analysis returned succeeds exactly when
\* its page count is 12, 24 or 36; with any other page count it ends in the
\* error status without a record, none of its readings is in the list handed
\* to write_invoices, and none reaches a month cell.
C9_PageCountPrecondition ==
  session_state.parse_mode = "multi" =>
     /\ \A j \in Processed :
          PageCountOf(j) # -1 =>
             /\ session_state.pdf_files[j].status = "kanryo"
                  <=> PageCountOf(j) \in {12, 24, 36}
             /\ PageCountOf(j) \notin {12, 24, 36} =>
                  /\ session_state.pdf_files[j].status = "error"
                  /\ session_state.pdf_files[j].invoice = None
     /\ Len(run.invoices) =
          Cardinality({j \in Processed : PageCountOf(j) \in {12, 24, 36}})
     /\ \A i \in 1..Len(run.invoices) :
          RecordReadings(run.invoices[i].fields) \cap RejectedReadings = {}
     /\ \A m \in 1..12 :
          (template.cells[m] # <<>> /\ \A c \in 1..Len(template.cells[m]) :
                                         template.cells[m][c] \in Digits)
             => PlaceValue(template.cells[m]) \notin RejectedReadings

\* C9 witness: a finished multi-mode batch of a 13-page document and a
\* 12-page document; the first ended in error, the second wrote its cells.
C9_Witness ==
  /\ run.pc = "finished"
  /\ session_state.parse_mode = "multi"
  /\ Len(session_state.pdf_files) = 2
  /\ PageCountOf(1) = 13
  /\ PageCountOf(2) = 12
  /\ session_state.pdf_files[1].status = "error"
  /\ session_state.pdf_files[2].status = "kanryo"
  /\ Len(run.invoices) = 1
  /\ \A m \in 1..12 : template.cells[m] \notin {<<>>, <<"x">>}

\* C9 further witness states: page counts 0, 24 and 36.
C9_ZeroPagesReached ==
  /\ session_state.parse_mode = "multi"
  /\ \E j \in Processed : PageCountOf(j) = 0 /\ session_state.pdf_files[j].status = "error"

C9_MorePagesReached ==
  /\ session_state.parse_mode = "multi"
  /\ \E j \in Processed : PageCountOf(j) = 24 /\ session_state.pdf_files[j].status = "kanryo"
  /\ \E j \in Processed : PageCountOf(j) = 36 /\ session_state.pdf_files[j].status = "kanryo"

\* A page text after which no tagged number can continue onto the next page.
ClosedPage(t) ==
  t = <<>> \/ t[Len(t)] \notin (NumChars \cup Spaces \cup {"k", "K", "w", "W"})

\* The readings on the pages with indices in [lo, hi) (from 0).
ReadingsOnPages(result, lo, hi) ==
  UNION {TaggedValues(PageTexts(result)[p + 1]) :
           p \in {q \in 0..(Len(result.pages) - 1) : lo <= q /\ q < hi}}

\* C10: with pagesPerMonth = pageCount / 12, the record of a paginated
\* document holds for group i (0..11) the largest reading on the pages
\* [i * pagesPerMonth, (i + 1) * pagesPerMonth) under the key of startMonth
\* advanced by i with wrap from 12 to 1, and nothing for a group whose pages
\* hold no reading, whatever the earlier groups yielded; with 12 pages and
\* startMonth 11 the groups get the months 11, 12, 1, 2, ..., 10.
C10_PageGroups ==
  (/\ called = "_analyze_multi"
   /\ "fields" \in DOMAIN ret
   /\ \A p \in 1..Len(input.result.pages) : ClosedPage(PageTexts(input.result)[p])) =>
     LET n == Len(input.result.pages)
         per == n \div 12
     IN /\ Cardinality(DOMAIN ret.fields) = Cardinality(KeyMonths(ret.fields))
        /\ \A i \in 0..11 :
             LET readings == ReadingsOnPages(input.result, i * per, (i + 1) * per)
                 k == ShiftLaw(Advance(input.start_month, i))
             IN IF readings = {} THEN k \notin KeyMonths(ret.fields)
                ELSE /\ k \in KeyMonths(ret.fields)
                     /\ PlaceValue(ret.fields[KeyFor(ret.fields, k)]) = Max(readings)
        /\ (/\ n = 12
            /\ input.start_month = 11
            /\ \A p \in 1..12 : TaggedValues(PageTexts(input.result)[p]) = {p}) =>
             \A i \in 0..11 :
                LET k == ShiftLaw(<<11, 12, 1, 2, 3, 4, 5, 6, 7, 8, 9, 10>>[i + 1])
                IN /\ k \in KeyMonths(ret.fields)
                   /\ PlaceValue(ret.fields[KeyFor(ret.fields, k)]) = i + 1

\* C10 witness: 24 pages from startMonth 11 where only page 5 (group 2,
\* calendar month 1) carries a reading; the record is {12: "6"}.
C10_Witness ==
  /\ called = "_analyze_multi"
  /\ Len(input.result.pages) = 24
  /\ input.start_month = 11
  /\ \A p \in 1..24 : (PageTexts(input.result)[p] # <<>>) <=> (p = 6)
  /\ ret.fields = (<<"1", "2", "gatsu", "chi">> :> <<"6">>)

\* C10 further witness state: 36 pages, every page with a reading.
C10_AllGroupsReached ==
  /\ called = "_analyze_multi"
  /\ Len(input.result.pages) = 36
  /\ input.start_month = 11
  /\ "fields" \in DOMAIN ret
  /\ Cardinality(DOMAIN ret.fields) = 12
  /\ ret.fields[<<"1", "0", "gatsu", "chi">>] = <<"3">>
  /\ ret.fields[<<"9", "gatsu", "chi">>] = <<"3", "6">>

\* The month the loop of _analyze_multi holds at iteration i: _next_month
\* applied i times to the start month.
RECURSIVE GroupMonth(_, _)
GroupMonth(start_month, i) ==
  IF i = 0 THEN start_month ELSE _next_month(GroupMonth(start_month, i - 1))

\* The pages of month group i (from 0) one after the other, nothing between.
GroupConcat(result, i) ==
  LET per == Len(result.pages) \div 12
  IN Flatten([j \in 1..per |-> PageTexts(result)[i * per + j]])

\* The groups of a document whose text holds a valid tagged number.
SuccessfulGroups(result) ==
  {i \in 0..11 : TaggedValues(GroupConcat(result, i)) # {}}

\* C11: for every start month in 1..12 the keys of the 12 groups are pairwise
\* distinct and cover 1..12; the record of a document of 12, 24 or 36 pages
\* has exactly one entry per group with a reading, under the shifted month of
\* that group and with that group's value, and has 12 entries when every
\* group holds a reading.
C11_PaginatedCompleteness ==
  /\ called = "_analyze_multi" =>
       LET key == [i \in 0..11 |-> MappedMonth(GroupMonth(input.start_month, i))]
       IN /\ input.start_month \in 1..12
          /\ {key[i] : i \in 0..11} = 1..12
          /\ \A i \in 0..11, j \in 0..11 : key[i] = key[j] => i = j
  /\ (/\ called = "_analyze_multi"
      /\ Len(input.result.pages) \in {12, 24, 36}
      /\ \A p \in 1..Len(input.result.pages) : ClosedPage(PageTexts(input.result)[p])) =>
       LET good == SuccessfulGroups(input.result)
       IN /\ "fields" \in DOMAIN ret
          /\ Cardinality(DOMAIN ret.fields) = Cardinality(good)
          /\ \A i \in good :
               LET key == FieldKey(ShiftLaw(Advance(input.start_month, i)))
               IN /\ key \in DOMAIN ret.fields
                  /\ PlaceValue(ret.fields[key])
                       = Max(TaggedValues(GroupConcat(input.result, i)))
          /\ good = 0..11 => Cardinality(DOMAIN ret.fields) = 12

\* C11 witness: 24 pages from startMonth 10, every page with its own reading;
\* the record has 12 entries, group 0 (month 10) under key 9 and group 3
\* (month 1) under key 12.
C11_Witness ==
  /\ called = "_analyze_multi"
  /\ Len(input.result.pages) = 24
  /\ input.start_month = 10
  /\ \A p \in 1..24 : TaggedValues(PageTexts(input.result)[p]) = {p}
  /\ SuccessfulGroups(input.result) = 0..11
  /\ Cardinality(DOMAIN ret.fields) = 12
  /\ ret.fields[<<"9", "gatsu", "chi">>] = <<"2">>
  /\ ret.fields[<<"1", "2", "gatsu", "chi">>] = <<"8">>

\* C11 further witness state: a group without a reading leaves a hole of one
\* entry.
C11_HoleReached ==
  /\ called = "_analyze_multi"
  /\ Len(input.result.pages) = 12
  /\ "fields" \in DOMAIN ret
  /\ Cardinality(DOMAIN ret.fields) = 11

\* The step of the run in which write_invoices is called.
WriteStep == run.pc = "loop" /\ run'.pc = "finished"

\* The records of a list that hold month key k, by list index.
Holders(invoices, k) ==
  {i \in 1..Len(invoices) : FieldKey(k) \in DOMAIN invoices[i].fields}

\* C12: when the records are written in upload order into an existing
\* template, the cell of month key k gets the value of the last record that
\* holds k: an earlier record's value is overwritten by a later one, never
\* summed or kept, and a later record without k does not erase it.
C12_LastWriterWins ==
  [][(WriteStep /\ template.exists) =>
        \A k \in 1..12 :
           Holders(run.invoices, k) # {} =>
              template'.cells[k]
                = run.invoices[Max(Holders(run.invoices, k))].fields[FieldKey(k)]]_vars

\* C12 witness: records {1: "5"}, {1: "7"} written in that order; cell 1
\* holds "7".
C12_Witness ==
  /\ run.pc = "finished"
  /\ Len(run.invoices) = 2
  /\ run.invoices[1].fields = (FieldKey(1) :> <<"5">>)
  /\ run.invoices[2].fields = (FieldKey(1) :> <<"7">>)
  /\ template.cells[1] = <<"7">>

\* C12 further witness states: the reversed order gives "5"; a later record
\* without key 1 leaves the earlier value of cell 1.
C12_ReversedReached ==
  /\ run.pc = "finished"
  /\ Len(run.invoices) = 2
  /\ run.invoices[1].fields = (FieldKey(1) :> <<"7">>)
  /\ run.invoices[2].fields = (FieldKey(1) :> <<"5">>)
  /\ template.cells[1] = <<"5">>

C12_NotErasedReached ==
  /\ run.pc = "finished"
  /\ Len(run.invoices) = 2
  /\ run.invoices[1].fields = (FieldKey(1) :> <<"5">>)
  /\ run.invoices[2].fields = (FieldKey(4) :> <<"9">>)
  /\ template.cells[1] = <<"5">>
  /\ template.cells[4] = <<"9">>

\* The last record of a list built from a text whose located month is m and
\* which holds a reading, 0 if none.
LastOfMonth(invoices, m) ==
  LET W == {i \in 1..Len(invoices) :
              /\ invoices[i].fields # EmptyFields
              /\ LocatedMonth(invoices[i].raw_text) = [int |-> m]}
  IN IF W = {} THEN 0 ELSE Max(W)

\* The last document of the batch that ended in the done status, 0 if none.
LastDone ==
  LET W == {j \in 1..Len(session_state.pdf_files) :
              session_state.pdf_files[j].status = "kanryo"}
  IN IF W = {} THEN 0 ELSE Max(W)

\* The reading that a finished batch holds for calendar month m sits in
\* cell c(m): in single mode the reading of the last document located in
\* month m, in multi mode the reading of the group of the last done document
\* to which month m is assigned.
CellsHoldReadings(c(_)) ==
  (run.pc = "finished" /\ template.exists) =>
     /\ session_state.parse_mode = "single" =>
          \A m \in 1..12 :
             LET i == LastOfMonth(run.invoices, m)
             IN i # 0 =>
                  template.cells[c(m)]
                    = str(Max(TaggedValues(run.invoices[i].raw_text)))
     /\ (session_state.parse_mode = "multi" /\ LastDone # 0) =>
          LET result == begin_analyze_document(session_state.pdf_files[LastDone].bytes)
          IN \A g \in SuccessfulGroups(result) :
                template.cells[c(Advance(session_state.start_month, g))]
                  = str(Max(TaggedValues(GroupConcat(result, g))))

CalendarMonth(m) == m

\* C13 as claimed: the m-th cell holds the reading of calendar month m, the
\* shift of the record builder being inverted before the cell mapping.
C13_CellOfCalendarMonth == CellsHoldReadings(CalendarMonth)

\* C13 as the code does it: the cell is chosen by the shifted storage key
\* itself; the reading of calendar month m is written into cell m - 1, and
\* that of month 1 into cell 12.
C13_CellOfShiftedKey == CellsHoldReadings(ShiftLaw)

\* C13 witness: a finished single-mode batch with a document of month 2 and
\* reading 5; the first cell holds "5", the second cell does not.
C13_Witness ==
  /\ run.pc = "finished"
  /\ template.exists
  /\ session_state.parse_mode = "single"
  /\ Len(run.invoices) = 1
  /\ LocatedMonth(run.invoices[1].raw_text) = [int |-> 2]
  /\ TaggedValues(run.invoices[1].raw_text) = {5}
  /\ template.cells[1] = <<"5">>
  /\ template.cells[2] # <<"5">>

\* C13 further witness state: a finished multi-mode batch from start month 1;
\* the reading of the first group (month 1) is in the twelfth cell.
C13_PagedReached ==
  /\ run.pc = "finished"
  /\ template.exists
  /\ session_state.parse_mode = "multi"
  /\ session_state.start_month = 1
  /\ LastDone # 0
  /\ template.cells[12]
       = str(Max(TaggedValues(GroupConcat(
           begin_analyze_document(session_state.pdf_files[LastDone].bytes), 0))))

\* Extraction of document j raises: the analysis call fails, or in multi mode
\* the page count is not 12, 24 or 36.
ExtractionRaises(j) ==
  \/ PageCountOf(j) = -1
  \/ session_state.parse_mode = "multi" /\ PageCountOf(j) \notin {12, 24, 36}

\* The i-th smallest element of a set of numbers.
NthSmallest(S, i) == CHOOSE j \in S : Cardinality({o \in S : o < j}) = i - 1

\* C14: a document whose extraction raises leaves no record and does not stop
\* the loop; the list collected for write_invoices is at any time the records
\* of the documents processed so far whose extraction did not raise, in
\* upload order, and at the end of the run every document has been processed.
C14_FailureIsolation ==
  LET ok == {j \in Processed : ~ExtractionRaises(j)}
  IN /\ Len(run.invoices) = Cardinality(ok)
     /\ \A i \in 1..Len(run.invoices) :
          LET j == NthSmallest(ok, i)
          IN /\ run.invoices[i] = session_state.pdf_files[j].invoice
             /\ session_state.parse_mode = "single" =>
                  run.invoices[i].raw_text
                    = begin_analyze_document(session_state.pdf_files[j].bytes).content
     /\ \A j \in Processed :
          ExtractionRaises(j) => session_state.pdf_files[j].invoice = None
     /\ run.pc = "finished" => Processed = 1..Len(session_state.pdf_files)
     /\ \A j \in 1..Len(session_state.pdf_files) :
          j \notin Processed => session_state.pdf_files[j].status \in {"mishori", "shorichu"}
     /\ \A j \in Processed : session_state.pdf_files[j].status \in {"kanryo", "error"}

\* C14 witness: a finished batch whose first document could not be analysed
\* and whose second document was; the list holds the second record only and
\* its reading is in the template.
C14_Witness ==
  /\ run.pc = "finished"
  /\ template.exists
  /\ Len(session_state.pdf_files) = 2
  /\ PageCountOf(1) = -1
  /\ session_state.pdf_files[1].status = "error"
  /\ session_state.pdf_files[2].status = "kanryo"
  /\ run.invoices = <<session_state.pdf_files[2].invoice>>
  /\ run.invoices[1].fields = (FieldKey(1) :> <<"5">>)
  /\ template.cells[1] = <<"5">>

\* C14 further witness state: the failing document comes last; the record of
\* the first one is kept.
C14_FailLastReached ==
  /\ run.pc = "finished"
  /\ Len(session_state.pdf_files) = 2
  /\ ExtractionRaises(2)
  /\ run.invoices = <<session_state.pdf_files[1].invoice>>
  /\ run.invoices[1].fields # EmptyFields

(***************************************************************************)
(* OcrService.analyze_invoice called with any mode and start month.        *)
(***************************************************************************)
CallModes == {"single", "multi"}

\* start_month arguments: absent, in range, and out of range.
CallStartMonths == {None} \cup {[int |-> m] : m \in 0..13}

CallInputs ==
  {[kind |-> "call", content |-> b, mode |-> mode, start_month |-> sm] :
      b \in BatchDocs, mode \in CallModes, sm \in CallStartMonths}

InitService ==
  /\ input \in CallInputs
  /\ called = "none"
  /\ ret = <<>>
  /\ AppIdle

Call_analyze_invoice ==
  /\ called = "none"
  /\ input.kind = "call"
  /\ called' = "analyze_invoice"
  /\ ret' = analyze_invoice(input.content, input.mode, input.start_month)
  /\ UNCHANGED <<input, app>>

NextService == Call_analyze_invoice

SpecService == InitService /\ [][NextService]_vars

\* The start month of the call is absent or outside 1..12.
BadStartMonth ==
  input.start_month = None \/ input.start_month.int \notin 1..12

\* C15 as claimed: analyze_invoice in multi mode with the start month absent
\* or outside 1..12 is rejected and gives no record, and no record of a
\* multi-mode call has a key outside 1..12.
C15_StartMonthContract ==
  (called = "analyze_invoice" /\ input.mode = "multi") =>
     /\ BadStartMonth => "raised" \in DOMAIN ret
     /\ "fields" \in DOMAIN ret =>
          \A key \in DOMAIN ret.fields : key \in {FieldKey(k) : k \in 1..12}

\* C15, the part the code keeps: an absent start month is rejected.
C15_AbsentRejected ==
  (called = "analyze_invoice" /\ input.mode = "multi" /\ input.start_month = None) =>
     ret = [raised |-> "ValueError"]

\* C15, what the code does: a start month of 13 is accepted and a 12-page
\* document gives a record with the keys 12..23; a start month of 0 gives a
\* record with the key "-1".
C15_OutOfRangeAccepted ==
  /\ called = "analyze_invoice"
  /\ input.mode = "multi"
  /\ input.start_month = [int |-> 13]
  /\ "fields" \in DOMAIN ret
  /\ DOMAIN ret.fields = {FieldKey(k) : k \in 12..23}

C15_ZeroAccepted ==
  /\ called = "analyze_invoice"
  /\ input.mode = "multi"
  /\ input.start_month = [int |-> 0]
  /\ "fields" \in DOMAIN ret
  /\ <<"-", "1", "gatsu", "chi">> \in DOMAIN ret.fields

RecordBuilders == {"_from_text_single", "proto_from_text", "_from_text_multi"}

\* A usage record: keys "<k><gatsu><chi>" with k in 1..12 written without a
\* leading zero, no two keys of the same month, and values that are digit
\* strings without separators or leading zeros, hence positive.
UsageRecord(fields) ==
  /\ \A key \in DOMAIN fields :
       /\ WellFormedKey(key)
       /\ KeyMonth(key) \in 1..12
       /\ Canonical(fields[key])
       /\ PlaceValue(fields[key]) > 0
       /\ "," \notin {fields[key][i] : i \in 1..Len(fields[key])}
  /\ Cardinality(DOMAIN fields) = Cardinality(KeyMonths(fields))
  /\ Cardinality(DOMAIN fields) <= 12

\* C16: every record of the whole-text, the segmented and the paginated
\* builder (start month in 1..12) is a usage record.
C16_RecordInvariant ==
  /\ called \in RecordBuilders => UsageRecord(ret)
  /\ (called = "_analyze_multi" /\ "fields" \in DOMAIN ret) =>
       /\ input.start_month \in 1..12
       /\ UsageRecord(ret.fields)

\* C16 witness: the whole-text builder on "2<gatsu><bun>x12,345kWh" gives the
\* record {1: "12345"}.
C16_Witness ==
  /\ called = "_from_text_single"
  /\ "," \in {input.text[i] : i \in 1..Len(input.text)}
  /\ ret = (<<"1", "gatsu", "chi">> :> <<"1", "2", "3", "4", "5">>)

\* C16 further witness states: a segmented record with several keys and a
\* paginated record with twelve.
C16_SegmentedReached ==
  /\ called = "_from_text_multi"
  /\ Cardinality(DOMAIN ret) = 3
  /\ <<"1", "2", "gatsu", "chi">> \in DOMAIN ret

C16_PaginatedReached ==
  /\ called = "_analyze_multi"
  /\ "fields" \in DOMAIN ret
  /\ Cardinality(DOMAIN ret.fields) = 12
  /\ \E key \in DOMAIN ret.fields : Len(ret.fields[key]) = 2

\* The bare markers of t that start first in the text.
FirstBareMarkers(t) ==
  {sd \in BareMarkers(t) : \A o \in BareMarkers(t) : sd[1] <= o[1]}

\* The number read at the first bare marker, with both digits when two
\* digits precede the marker there.
FirstBareNumber(t) ==
  NumberAt(t, CHOOSE sd \in FirstBareMarkers(t) :
                 \A o \in FirstBareMarkers(t) : sd[2] >= o[2])

\* C17: when none of the three suffix patterns occurs in the text, the
\* locator looks at the first bare marker only: it returns its number when
\* that is in 1..12 and empty otherwise (0 included), even if a later bare
\* marker is in range; without any marker it returns empty.
C17_BareFallback ==
  (called \in Locators /\ MatchingPatterns(input.text) = {}) =>
     IF BareMarkers(input.text) = {} THEN ret = None
     ELSE IF FirstBareNumber(input.text) \in 1..12
          THEN ret = [int |-> FirstBareNumber(input.text)]
          ELSE ret = None

\* C17 witness: no suffix pattern, a first bare marker out of range and a
\* later one in range; the locator returned empty.
C17_Witness ==
  /\ called = "extract_month_for_single"
  /\ MatchingPatterns(input.text) = {}
  /\ BareMarkers(input.text) # {}
  /\ FirstBareNumber(input.text) \notin 1..12
  /\ \E sd \in BareMarkers(input.text) : NumberAt(input.text, sd) \in 1..12
  /\ ret = None

\* C17 further witness states: the first marker in range is returned though
\* a different one follows; a marker 0; no marker at all.
C17_InRangeReached ==
  /\ called = "extract_month"
  /\ MatchingPatterns(input.text) = {}
  /\ BareMarkers(input.text) # {}
  /\ FirstBareNumber(input.text) \in 1..12
  /\ \E sd \in BareMarkers(input.text) :
        NumberAt(input.text, sd) \in 1..12 \ {FirstBareNumber(input.text)}
  /\ ret = [int |-> FirstBareNumber(input.text)]

C17_ZeroReached ==
  /\ called \in Locators
  /\ MatchingPatterns(input.text) = {}
  /\ BareMarkers(input.text) # {}
  /\ FirstBareNumber(input.text) = 0
  /\ ret = None

C17_NoMarkerReached ==
  /\ called \in Locators
  /\ input.text # <<>>
  /\ BareMarkers(input.text) = {}
  /\ ret = None

StatusOf(j) == session_state.pdf_files[j].status

\* The moves of a document status in a run: pending to running, running to
\* done or to failed.
StatusMoves ==
  {<<"mishori", "shorichu">>, <<"shorichu", "kanryo">>, <<"shorichu", "error">>}

\* The documents that have been in the running status so far.
Entered == {j \in 1..Len(session_state.pdf_files) : StatusOf(j) # "mishori"}

\* C18, the states: at most one document is running; the documents that
\* left the pending status are a prefix of the upload order; a finished run
\* has no pending or running document; a document is done exactly when its
\* record is in the list for write_invoices, and failed exactly when it was
\* processed and its extraction raised.
C18_StatusStates ==
  /\ Cardinality({j \in 1..Len(session_state.pdf_files) : StatusOf(j) = "shorichu"}) <= 1
  /\ \A j \in Entered : \A i \in 1..j : i \in Entered
  /\ \A j \in Entered : \A i \in 1..(j - 1) : StatusOf(i) \in {"kanryo", "error"}
  /\ run.pc = "finished" =>
       \A j \in 1..Len(session_state.pdf_files) : StatusOf(j) \in {"kanryo", "error"}
  /\ LET done == {j \in 1..Len(session_state.pdf_files) : StatusOf(j) = "kanryo"}
     IN /\ Len(run.invoices) = Cardinality(done)
        /\ \A j \in done :
             /\ session_state.pdf_files[j].invoice # None
             /\ run.invoices[Cardinality({i \in done : i <= j})]
                  = session_state.pdf_files[j].invoice
  /\ \A j \in 1..Len(session_state.pdf_files) :
       StatusOf(j) = "error" <=> (j \in Processed /\ ExtractionRaises(j))
  /\ \A j \in 1..Len(session_state.pdf_files) :
       StatusOf(j) = "kanryo" <=> (j \in Processed /\ ~ExtractionRaises(j))

\* C18, the steps: a step changes the status of at most one document, by
\* one of the three moves, and the document that becomes running is the
\* next one in upload order.
C18_StatusSteps ==
  /\ Len(session_state'.pdf_files) = Len(session_state.pdf_files)
  /\ LET changed == {j \in 1..Len(session_state.pdf_files) :
                       session_state'.pdf_files[j].status # StatusOf(j)}
     IN /\ Cardinality(changed) <= 1
        /\ \A j \in changed :
             /\ <<StatusOf(j), session_state'.pdf_files[j].status>> \in StatusMoves
             /\ session_state'.pdf_files[j].status = "shorichu" =>
                  j = Cardinality(Entered) + 1

\* C18: the document status is a state machine pending -> running -> done
\* or failed, one document running at a time, in upload order, with done
\* documents exactly those whose record was collected and failed documents
\* exactly those whose extraction raised.
C18_StatusMachine == [](C18_StatusStates) /\ [][C18_StatusSteps]_vars

\* C18 witness: a finished run of two documents, the first failed and the
\* second done.
C18_Witness ==
  /\ run.pc = "finished"
  /\ Len(session_state.pdf_files) = 2
  /\ StatusOf(1) = "error"
  /\ StatusOf(2) = "kanryo"
  /\ Len(run.invoices) = 1

\* C18 further witness state: the second document is running, the first is
\* done.
C18_RunningReached ==
  /\ run.pc = "analyze"
  /\ Len(session_state.pdf_files) = 2
  /\ StatusOf(1) = "kanryo"
  /\ StatusOf(2) = "shorichu"

\* The pages of month group i (from 0) with a newline between consecutive
\* pages.
GroupJoined(result, i) ==
  LET per == Len(result.pages) \div 12
  IN Flatten([j \in 1..(2 * per - 1) |->
                IF j % 2 = 1 THEN PageTexts(result)[i * per + (j + 1) \div 2]
                ELSE <<"nl">>])

\* The record of a paginated document holds for every month group the
\* largest valid tagged number of the group text, and nothing for a group
\* whose text has none.
GroupsScannedAs(text(_, _)) ==
  (called = "_analyze_multi" /\ "fields" \in DOMAIN ret) =>
     \A i \in 0..11 :
        LET vals == TaggedValues(text(input.result, i))
            key == FieldKey(ShiftLaw(Advance(input.start_month, i)))
        IN IF vals = {} THEN key \notin DOMAIN ret.fields
           ELSE /\ key \in DOMAIN ret.fields
                /\ ret.fields[key] = str(Max(vals))

\* C19 as claimed: the text scanned for month group i is the plain
\* concatenation of the pages of the group, nothing inserted between pages,
\* so a number or a number/unit pair over a page boundary is read as in the
\* concatenated string.
C19_GroupTextConcatenated == GroupsScannedAs(GroupConcat)

\* C19 as the code does it: the text scanned for month group i is the pages
\* of the group joined with a newline; digits on either side of a page
\* boundary are separate numbers, a unit cut by the boundary is no unit, and
\* a number at the end of a page still pairs with a unit at the start of the
\* next page.
C19_GroupTextJoined == GroupsScannedAs(GroupJoined)

\* C19 witness: 24 pages, group 1 with "12" on its first page and "3kWh" on
\* its second; the record holds "3", not "123".
C19_Witness ==
  /\ called = "_analyze_multi"
  /\ Len(input.result.pages) = 24
  /\ input.start_month = 10
  /\ TaggedValues(GroupConcat(input.result, 1)) = {123}
  /\ TaggedValues(GroupJoined(input.result, 1)) = {3}
  /\ ret.fields = (FieldKey(10) :> <<"3">>)

\* C19 further witness states: the unit cut by the boundary gives no entry;
\* number and unit on either side of the boundary give the number; with 36
\* pages "7kWh12," and "345kWh" give 345.
C19_UnitCutReached ==
  /\ called = "_analyze_multi"
  /\ "fields" \in DOMAIN ret
  /\ TaggedValues(GroupConcat(input.result, 1)) = {12}
  /\ TaggedValues(GroupJoined(input.result, 1)) = {}
  /\ ret.fields = EmptyFields

C19_PairReached ==
  /\ called = "_analyze_multi"
  /\ "fields" \in DOMAIN ret
  /\ PageTexts(input.result)[Len(input.result.pages) \div 12 + 2] = KWH
  /\ Cardinality(DOMAIN ret.fields) = 1
  /\ \A key \in DOMAIN ret.fields : ret.fields[key] = <<"1", "2">>

C19_ThreePagesReached ==
  /\ called = "_analyze_multi"
  /\ Len(input.result.pages) = 36
  /\ TaggedValues(GroupConcat(input.result, 1)) = {7, 12345}
  /\ Cardinality(DOMAIN ret.fields) = 1
  /\ \A key \in DOMAIN ret.fields : ret.fields[key] = <<"3", "4", "5">>

(***************************************************************************)
(* Batch runs one after the other: after a run the page is rendered again  *)
(* with a new upload, and the next run loads the template the earlier run  *)
(* saved.                                                                  *)
(***************************************************************************)
RerunDocs == {"unreadable", "month2_5kWh", "month5_9kWh", "pages12"}

\* The uploader holds no file or up to n files.
ReUploads(n) == UNION {[1..k -> RerunDocs] : k \in 0..n}

InitRerun ==
  /\ input = <<>>
  /\ called = "none"
  /\ ret = <<>>
  /\ \E docs \in ReUploads(MaxDocs), corp \in CorpNames, mode \in {"single", "multi"} :
       session_state = FreshSession(docs, mode, DefaultStartMonth, corp)
  /\ run = [pc |-> "idle", idx |-> 0, invoices |-> <<>>]
  /\ template \in {[exists |-> FALSE, b1 |-> <<>>, cells |-> [m \in 1..12 |-> <<>>]],
                   [exists |-> TRUE, b1 |-> <<>>, cells |-> [m \in 1..12 |-> <<>>]],
                   [exists |-> TRUE, b1 |-> <<"x">>, cells |-> [m \in 1..12 |-> <<"x">>]]}

\* The upload section of render_main_page when the page is rendered outside
\* a run: pdf_files is rebuilt from the uploader, output_file is cleared.
Upload ==
  /\ run.pc \in {"idle", "finished"}
  /\ \E docs \in ReUploads(MaxDocs) :
       session_state' =
         [session_state EXCEPT
            !.pdf_files = [i \in 1..Len(docs) |->
                             [bytes |-> docs[i], status |-> "mishori",
                              invoice |-> None, text |-> <<>>]],
            !.output_file = <<>>]
  /\ run' = [pc |-> "idle", idx |-> 0, invoices |-> <<>>]
  /\ UNCHANGED <<input, called, ret, template>>

NextRerun ==
  \/ StartRun
  \/ MarkProcessing
  \/ AnalyzeDocument
  \/ WriteInvoices
  \/ Upload

SpecRerun == InitRerun /\ [][NextRerun]_vars

\* C20: the write of a run into an existing template changes the cell of a
\* month only if some record of the batch holds that month, sets the header
\* cell only for a non-blank label, and returns the path; with the template
\* missing nothing is written and the path is empty; no other step touches
\* the template, so what an earlier run wrote stays in the cells of the
\* months absent from the current batch.
C20_WriteFrame ==
  [][IF WriteStep
     THEN IF template.exists
          THEN /\ template'.exists
               /\ \A m \in 1..12 :
                    Holders(run.invoices, m) = {} => template'.cells[m] = template.cells[m]
               /\ \A m \in 1..12 :
                    template'.cells[m] # template.cells[m] =>
                       \E i \in 1..Len(run.invoices) :
                          /\ FieldKey(m) \in DOMAIN run.invoices[i].fields
                          /\ template'.cells[m] = run.invoices[i].fields[FieldKey(m)]
               /\ template'.b1 # template.b1 =>
                    /\ Strip(session_state.corp_name) # <<>>
                    /\ template'.b1 = Strip(session_state.corp_name)
               /\ Strip(session_state.corp_name) = <<>> => template'.b1 = template.b1
               /\ session_state'.output_file = OutPath
          ELSE /\ template' = template
               /\ session_state'.output_file = <<>>
     ELSE template' = template]_vars

\* C20 witness: a finished run whose batch has no record for month key 1
\* while the first cell shows the "5" that an earlier run wrote; the cell of
\* month key 4 was written by the current run.
C20_Witness ==
  /\ run.pc = "finished"
  /\ template.exists
  /\ Len(run.invoices) = 1
  /\ run.invoices[1].fields = (FieldKey(4) :> <<"9">>)
  /\ template.cells[1] = <<"5">>
  /\ template.cells[4] = <<"9">>
  /\ template.cells[2] \in {<<>>, <<"x">>}

\* C20 further witness states: the template is missing and the run ends with
\* an empty path; a blank label leaves the header of the template.
C20_MissingReached ==
  /\ run.pc = "finished"
  /\ ~template.exists
  /\ run.invoices # <<>>
  /\ session_state.output_file = <<>>
  /\ \A m \in 1..12 : template.cells[m] = <<>>

C20_HeaderKeptReached ==
  /\ run.pc = "finished"
  /\ session_state.corp_name = <<>>
  /\ template.b1 = <<"x">>
  /\ template.cells[1] = <<"5">>
  /\ session_state.output_file = OutPath

(***************************************************************************)
(* The duplicated scanners and locators applied to one and the same text.  *)
(***************************************************************************)
InitVariants ==
  /\ input \in {TextInput(t) :
                  t \in ScanTexts(MaxChunks) \cup LocTexts(MaxLocChunks) \cup BuildExamples}
  /\ called = "none"
  /\ ret = <<>>
  /\ AppIdle

\* The four scanners on the text.
Call_scanners ==
  /\ called = "none"
  /\ input.kind = "text"
  /\ called' = "scanners"
  /\ ret' = [extract_kwh_single |-> extract_kwh_single(input.text),
             extract_kwh_value |-> extract_kwh_value(input.text),
             _extract_kwh_from_text |-> _extract_kwh_from_text(input.text),
             extract_kwh_from_segment |-> extract_kwh_from_segment(input.text)]
  /\ UNCHANGED <<input, app>>

\* The two single-period locators on the text.
Call_locators ==
  /\ called = "none"
  /\ input.kind = "text"
  /\ called' = "locators"
  /\ ret' = [extract_month_for_single |-> extract_month_for_single(input.text),
             extract_month |-> extract_month(input.text)]
  /\ UNCHANGED <<input, app>>

NextVariants ==
  \/ Call_scanners
  \/ Call_locators

SpecVariants == InitVariants /\ [][NextVariants]_vars

\* C21: on every text extract_kwh_single, extract_kwh_value and
\* _extract_kwh_from_text return the same string, extract_kwh_from_segment
\* returns the number that string denotes and None exactly when the string
\* is empty, and extract_month_for_single and extract_month return the same
\* month or both nothing.
C21_VariantsEquivalent ==
  /\ called = "scanners" =>
       /\ ret.extract_kwh_value = ret.extract_kwh_single
       /\ ret._extract_kwh_from_text = ret.extract_kwh_single
       /\ ret.extract_kwh_from_segment = None <=> ret.extract_kwh_single = <<>>
       /\ ret.extract_kwh_from_segment # None =>
            /\ Canonical(ret.extract_kwh_single)
            /\ PlaceValue(ret.extract_kwh_single) = ret.extract_kwh_from_segment.int
  /\ called = "locators" =>
       ret.extract_month = ret.extract_month_for_single

\* C21 witness: a text with a reading with separators and a smaller reading;
\* all scanners agree on the largest.
C21_Witness ==
  /\ called = "scanners"
  /\ Cardinality(TaggedValues(input.text)) >= 2
  /\ "," \in {input.text[i] : i \in 1..Len(input.text)}
  /\ ret.extract_kwh_single = str(Max(TaggedValues(input.text)))
  /\ ret.extract_kwh_value = ret.extract_kwh_single
  /\ ret._extract_kwh_from_text = ret.extract_kwh_single
  /\ ret.extract_kwh_from_segment = [int |-> Max(TaggedValues(input.text))]

\* C21 further witness states: only a zero reading, all scanners empty; the
\* locators agree on the month of a lower-priority pattern after an
\* out-of-range usage-period match; the locators agree on nothing for a
\* first bare marker 0.
C21_ZeroOnlyReached ==
  /\ called = "scanners"
  /\ TaggedRuns(input.text) # {}
  /\ TaggedValues(input.text) = {}
  /\ ret.extract_kwh_value = <<>>
  /\ ret.extract_kwh_from_segment = None

C21_LocatorsReached ==
  /\ called = "locators"
  /\ 1 \in MatchingPatterns(input.text) \ ValidPatterns(input.text)
  /\ 3 \in ValidPatterns(input.text)
  /\ ret.extract_month # None
  /\ ret.extract_month = ret.extract_month_for_single

C21_LocatorsEmptyReached ==
  /\ called = "locators"
  /\ BareMarkers(input.text) # {}
  /\ FirstBareNumber(input.text) = 0
  /\ ret.extract_month = None
  /\ ret.extract_month_for_single = None

====
